---- MODULE Spec2Model ----
(***************************************************************************)
(* A model of the Structured Cognitive Loop with Human-in-the-Loop         *)
(* (scl_core.py, hitl_module.py, run_experiment.py).                       *)
(*                                                                         *)
(* Python objects that are shared by reference are heap objects here:      *)
(*   cogs  the cognition-output dicts (each holds its proposed_action),    *)
(*   ctxs  the context dicts.                                              *)
(* A reference is an index into the heap; copy.deepcopy allocates a new    *)
(* object.  A dict handed to freeze_state for the working store or the     *)
(* evidence cache is a handle: either a fresh dict nobody else holds       *)
(* ([k |-> "val", v |-> ...]) or the live dict of the Memory               *)
(* ([k |-> "live"]).                                                       *)
(* Timestamps (datetime.now) and console output are left out.              *)
(***************************************************************************)
EXTENDS Integers, Sequences, FiniteSets, TLC

VARIABLES
    hitl_manager,      \* HITLManager: frozen_states, hitl_traces, freeze_counter, trace_counter
    cogs,              \* heap of cognition-output dicts
    ctxs,              \* heap of context dicts
    memory,            \* Memory: store, history, evidence_cache
    loop_counter,      \* StructuredCognitiveLoopWithHITL.loop_counter
    hitl_mode,         \* StructuredCognitiveLoopWithHITL.hitl_mode
    resume_context,    \* StructuredCognitiveLoopWithHITL._resume_context
    is_resumed,        \* StructuredCognitiveLoopWithHITL._is_resumed
    pc,                \* position of the loop thread
    context,           \* local `context` of run / resume_from_freeze: a reference into ctxs
    cognition_output,  \* local `cognition_output`: a reference into cogs
    modified_action,   \* local `modified_action` handed to action()
    in_continue,       \* TRUE while the loop of _continue_execution runs, FALSE in run
    ret,               \* what the last finished call returned
    executed,          \* the calls dispatched to the ToolRegistry, in order
    calls,             \* number of client calls made so far
    hist               \* history variables of the properties

vars == <<hitl_manager, cogs, ctxs, memory, loop_counter, hitl_mode, resume_context,
          is_resumed, pc, context, cognition_output, modified_action, in_continue,
          ret, executed, calls, hist>>

-----------------------------------------------------------------------------
(* Bounds of the model *)

\* max_loops of the loop instance (a constructor argument)
MaxLoops == 3
\* policies["confirm_after_n_loops"] of the policy instance (a configuration value)
ConfirmAfterNLoops == 2
\* client calls (run, resume_from_freeze, manager calls) in one behaviour
MaxCalls == 3
\* snapshots one manager creates in one behaviour
MaxFreezes == 2
\* oracle calls in one behaviour
MaxCognitions == 3
\* in-place changes a direct client of the manager makes to its own dicts
MaxMutations == 2
MaxThreadOps == 2

-----------------------------------------------------------------------------
(* Values *)

None == "None"

\* Python None where an action dict may stand
NoneAction == [tool_name |-> "None", parameters |-> "None"]
\* the empty dict {} where an action dict may stand
EmptyAction == [tool_name |-> "", parameters |-> "{}"]

Action(t, p) == [tool_name |-> t, parameters |-> p]

\* `x or y` of Python on action dicts: None and {} are falsy
Falsy(a) == a \in {NoneAction, EmptyAction}
OrElse(a, b) == IF Falsy(a) THEN b ELSE a

\* tools registered by setup_experiment
RegisteredTools == {"get_weather", "send_email", "generate_image", "cancel_trip"}

Tasks == {"task1", "task2"}

\* the plan retrieval() writes
RetrievalPlan == "plan"

\* a cognition output as the oracle returns it; confidence in hundredths
CogOutput(reasoning, act, refs, final, conf) ==
    [reasoning |-> reasoning, proposed_action |-> act, evidence_refs |-> refs,
     is_final_action |-> final, confidence |-> conf, control_validated |-> FALSE]

\* what the reasoning oracle may answer (an opaque function: any of these, any time)
OracleOutputs ==
    { CogOutput("check weather", Action("get_weather", "p1"), <<"ev1">>, FALSE, 90),
      CogOutput("send mail", Action("send_email", "p1"), <<"ev1">>, FALSE, 90),
      CogOutput("cancel", Action("cancel_trip", "p1"), <<"ev1">>, TRUE, 90),
      CogOutput("guess", Action("get_weather", "p2"), <<>>, FALSE, 90),
      CogOutput("book", Action("book_flight", "p1"), <<"ev1">>, FALSE, 90),
      CogOutput("book and finish", Action("book_flight", "p1"), <<"ev1">>, TRUE, 90) }

-----------------------------------------------------------------------------
(* HITLPolicy *)

\* HITLPolicy.__init__: the options evaluate reads
DefaultPolicies ==
    [high_risk_tools |-> {"send_email", "cancel_trip", "make_payment", "delete_data"},
     always_confirm_tools |-> {"generate_image"},
     confirm_on_final_action |-> TRUE,
     confirm_on_confidence_below |-> 70,
     confirm_after_n_loops |-> ConfirmAfterNLoops,
     confirm_on_missing_evidence |-> TRUE,
     custom_handlers |-> << >>]

Verdict(level, reason) == [level |-> level, reason |-> reason]

\* a faulty variant of evaluate: the custom handler of the tool is consulted first
HandlerFirst(policy, cog, ctx, loops) ==
    LET tool_name == cog.proposed_action.tool_name IN
    IF tool_name \in DOMAIN policy.custom_handlers
    THEN policy.custom_handlers[tool_name]
    ELSE IF tool_name \in policy.high_risk_tools
    THEN Verdict("approve", "High-risk tool")
    ELSE IF tool_name \in policy.always_confirm_tools
    THEN Verdict("confirm", "Confirmation required")
    ELSE IF policy.confirm_on_final_action /\ cog.is_final_action
    THEN Verdict("confirm", "Final action requires confirmation")
    ELSE IF loops >= policy.confirm_after_n_loops
    THEN Verdict("notify", "Extended loop count")
    ELSE IF cog.confidence < policy.confirm_on_confidence_below
    THEN Verdict("confirm", "Low confidence")
    ELSE IF policy.confirm_on_missing_evidence /\ cog.evidence_refs = << >>
    THEN Verdict("notify", "Missing evidence citations")
    ELSE Verdict("none", "")

\* HITLPolicy.evaluate; a reason stands for the formatted text of its rule
evaluate(policy, cog, ctx, loops) ==
    LET tool_name == cog.proposed_action.tool_name IN
    IF tool_name \in policy.high_risk_tools
    THEN Verdict("approve", "High-risk tool")
    ELSE IF tool_name \in policy.always_confirm_tools
    THEN Verdict("confirm", "Confirmation required")
    ELSE IF policy.confirm_on_final_action /\ cog.is_final_action
    THEN Verdict("confirm", "Final action requires confirmation")
    ELSE IF loops >= policy.confirm_after_n_loops
    THEN Verdict("notify", "Extended loop count")
    ELSE IF cog.confidence < policy.confirm_on_confidence_below
    THEN Verdict("confirm", "Low confidence")
    ELSE IF policy.confirm_on_missing_evidence /\ cog.evidence_refs = << >>
    THEN Verdict("notify", "Missing evidence citations")
    ELSE IF tool_name \in DOMAIN policy.custom_handlers
    THEN policy.custom_handlers[tool_name]
    ELSE Verdict("none", "")

\* HITLManager.check_intervention
check_intervention(policy, cog, ctx, loops) == evaluate(policy, cog, ctx, loops)

\* a faulty variant of evaluate_frame: the cognition output is marked as evaluated
MarkEvaluated(policy, cog, ctx) ==
    [policy |-> policy, cog |-> [cog EXCEPT !.control_validated = TRUE], ctx |-> ctx]

\* HITLPolicy.evaluate: the objects it was passed, after the call. It reads them with
\* dict.get, membership tests and comparisons, and assigns to none of them.
evaluate_frame(policy, cog, ctx) == [policy |-> policy, cog |-> cog, ctx |-> ctx]

-----------------------------------------------------------------------------
(* Heap *)

\* copy.deepcopy of a heap dict: a new object with the same contents
DeepCopyObj(heap, ref) == [heap |-> Append(heap, heap[ref]), ref |-> Len(heap) + 1]

Val(v) == [k |-> "val", v |-> v]
\* {"store": memory.store, "history_length": n}: a dict that shares the live store
LiveStore(n) == [k |-> "live_store", history_length |-> n]
\* memory.evidence_cache itself
LiveEvidence == [k |-> "live_evidence"]

\* the contents a handle stands for, given the live Memory
Deref(h, mem) ==
    IF h.k = "val" THEN h.v
    ELSE IF h.k = "live_store" THEN [store |-> mem.store, history_length |-> h.history_length]
    ELSE mem.evidence_cache

\* a faulty variant of DeepCopyDict: the handle itself is kept
AliasDict(h, mem) == h

\* copy.deepcopy of a handed-in dict: a fresh dict with the contents of now
DeepCopyDict(h, mem) == Val(Deref(h, mem))

-----------------------------------------------------------------------------
(* HITLManager *)

\* HITLManager.__init__
NewManager ==
    [policy |-> DefaultPolicies, frozen_states |-> << >>, hitl_traces |-> << >>,
     freeze_counter |-> 0, trace_counter |-> 0]

\* a faulty variant of _log_trace: the new event is put in front of the log
LogTraceFirst(m, event_type, freeze_id, pending_action, human_decision, human_feedback, mod_action, decision_rationale, actor) ==
    [m EXCEPT !.trace_counter = @ + 1,
              !.hitl_traces = <<[trace_id |-> m.trace_counter + 1,
                                 event_type |-> event_type,
                                 freeze_id |-> freeze_id,
                                 pending_action |-> pending_action,
                                 human_decision |-> human_decision,
                                 human_feedback |-> human_feedback,
                                 modified_action |-> mod_action,
                                 decision_rationale |-> decision_rationale,
                                 actor |-> actor]>> \o @]

\* HITLManager._log_trace with _generate_trace_id; trace_id n stands for "HITL-000n".
\* pending_action is the reference the snapshot holds, not a copy.
_log_trace(m, event_type, freeze_id, pending_action, human_decision, human_feedback, mod_action, decision_rationale, actor) ==
    [m EXCEPT !.trace_counter = @ + 1,
              !.hitl_traces = Append(@, [trace_id |-> m.trace_counter + 1,
                                         event_type |-> event_type,
                                         freeze_id |-> freeze_id,
                                         pending_action |-> pending_action,
                                         human_decision |-> human_decision,
                                         human_feedback |-> human_feedback,
                                         modified_action |-> mod_action,
                                         decision_rationale |-> decision_rationale,
                                         actor |-> actor])]

\* _log_trace with the defaults of its optional arguments
LogSystem(m, event_type, freeze_id, pending_action) ==
    _log_trace(m, event_type, freeze_id, pending_action, None, None, NoneAction, None, "system")

\* freeze_state line 233: cognition_output.get("proposed_action", {}) is the live dict
\* inside the cognition output that was passed in; a reference r stands for
\* "the proposed_action of cogs[r]"
PendingRef(cog_ref, copy_ref) == cog_ref

\* a faulty variant of _generate_freeze_id: the identifier is the size of the store
IdFromStoreSize(m) == Cardinality(DOMAIN m.frozen_states) + 1

\* a faulty variant of _generate_freeze_id: the counter is read and not advanced
StaleFreezeId(m) == IF m.freeze_counter = 0 THEN 1 ELSE m.freeze_counter

\* HITLManager._generate_freeze_id: the new value of freeze_counter; n stands for "FREEZE-000n"
_generate_freeze_id(m) == m.freeze_counter + 1

\* HITLManager.freeze_state.
\* Gives the manager, the heaps and the snapshot after the call.
freeze_state(m, cs, xs, mem, loops, cog_ref, memory_state, evidence_cache, ctx_ref, metaprompt_state, level, reason) ==
    LET freeze_id == _generate_freeze_id(m)
        cc == DeepCopyObj(cs, cog_ref)
        xc == DeepCopyObj(xs, ctx_ref)
        frozen == [freeze_id |-> freeze_id,
                   loop_counter |-> loops,
                   pending_action |-> PendingRef(cog_ref, cc.ref),
                   cognition_output |-> cc.ref,
                   memory_snapshot |-> DeepCopyDict(memory_state, mem),
                   evidence_cache |-> DeepCopyDict(evidence_cache, mem),
                   context |-> xc.ref,
                   metaprompt_state |-> metaprompt_state,
                   intervention_reason |-> reason,
                   intervention_level |-> level]
        m1 == [m EXCEPT !.freeze_counter = freeze_id,
                        !.frozen_states = (freeze_id :> frozen) @@ @]
    IN [m |-> LogSystem(m1, "state_frozen", freeze_id, frozen.pending_action),
        cogs |-> cc.heap, ctxs |-> xc.heap, frozen |-> frozen]

\* a faulty variant of thaw_state: the thawed snapshot is taken out of the store
ThawRemoves(m, freeze_id) ==
    IF freeze_id \notin DOMAIN m.frozen_states THEN m
    ELSE [LogSystem(m, "state_thawed", freeze_id, m.frozen_states[freeze_id].pending_action)
             EXCEPT !.frozen_states = [f \in DOMAIN @ \ {freeze_id} |-> @[f]]]

\* HITLManager.thaw_state: the manager after the call
thaw_state(m, freeze_id) ==
    IF freeze_id \notin DOMAIN m.frozen_states THEN m
    ELSE LogSystem(m, "state_thawed", freeze_id, m.frozen_states[freeze_id].pending_action)

\* HITLManager.thaw_state: what it returns (0 stands for None, else the stored snapshot)
thaw_result(m, freeze_id) ==
    IF freeze_id \notin DOMAIN m.frozen_states THEN 0 ELSE freeze_id

\* HITLManager.request_approval: the manager after the call; frozen is the snapshot object
request_approval(m, frozen) ==
    LogSystem(m, "approval_requested", frozen.freeze_id, frozen.pending_action)

Decisions == {"approve", "reject", "modify"}

\* the event type process_human_decision logs for a decision
DecisionEvent(decision) ==
    IF decision = "approve" THEN "approved"
    ELSE IF decision = "reject" THEN "rejected" ELSE "modified"

DecisionEvents == {"approved", "rejected", "modified"}

\* a faulty variant of _determine_next_action: a rejected action is executed
RejectExecutes(decision, frozen, mod_action, cs) ==
    IF decision = "modify" /\ ~Falsy(mod_action)
    THEN [action |-> "execute", by_ref |-> FALSE, ref |-> 0, proposed_action |-> mod_action]
    ELSE [action |-> "execute", by_ref |-> TRUE, ref |-> frozen.pending_action,
          proposed_action |-> NoneAction]

\* a faulty variant of _determine_next_action: modify never falls back to the pending
\* action, and reject carries no reasoning text
NoFallback(decision, frozen, mod_action, cs) ==
    IF decision = "approve"
    THEN [action |-> "execute", by_ref |-> TRUE, ref |-> frozen.pending_action,
          proposed_action |-> NoneAction]
    ELSE IF decision = "modify"
    THEN [action |-> "execute", by_ref |-> FALSE, ref |-> 0, proposed_action |-> mod_action]
    ELSE [action |-> "retry_cognition", rejection_feedback |-> "",
          virtual_rejection_cycle |-> TRUE]

\* HITLManager._determine_next_action; proposed_action is a reference r ("the
\* proposed_action of cogs[r]") or, for a supplied replacement, the replacement itself
_determine_next_action(decision, frozen, mod_action, cs) ==
    IF decision = "approve"
    THEN [action |-> "execute", by_ref |-> TRUE, ref |-> frozen.pending_action,
          proposed_action |-> NoneAction]
    ELSE IF decision = "modify"
    THEN IF Falsy(mod_action)
         THEN [action |-> "execute", by_ref |-> TRUE, ref |-> frozen.pending_action,
               proposed_action |-> NoneAction]
         ELSE [action |-> "execute", by_ref |-> FALSE, ref |-> 0,
               proposed_action |-> mod_action]
    ELSE [action |-> "retry_cognition", rejection_feedback |-> cs[frozen.cognition_output].reasoning,
          virtual_rejection_cycle |-> TRUE]

\* process_human_decision line 339: the only test made of the identifier
DecisionAllowed(m, freeze_id) == freeze_id \in DOMAIN m.frozen_states

\* a faulty variant of process_human_decision: the event is logged before the
\* decision value is validated
LogThenValidate(m, freeze_id, decision, feedback, mod_action, rationale) ==
    IF ~DecisionAllowed(m, freeze_id) THEN m
    ELSE _log_trace(m, DecisionEvent(decision), freeze_id,
                    m.frozen_states[freeze_id].pending_action,
                    decision, feedback, mod_action, rationale, "human")

\* HITLManager.process_human_decision: the manager after the call
process_human_decision(m, freeze_id, decision, feedback, mod_action, rationale) ==
    IF ~DecisionAllowed(m, freeze_id) THEN m
    ELSE IF decision \notin Decisions THEN m
    ELSE _log_trace(m, DecisionEvent(decision), freeze_id,
                    m.frozen_states[freeze_id].pending_action,
                    decision, feedback, mod_action, rationale, "human")

\* HITLManager.process_human_decision: what it returns
decision_result(m, freeze_id, decision, mod_action, cs) ==
    IF ~DecisionAllowed(m, freeze_id) THEN [error |-> "Frozen state not found"]
    ELSE IF decision \notin Decisions THEN [error |-> "Invalid decision"]
    ELSE [status |-> "processed", decision |-> decision, trace_id |-> m.trace_counter + 1,
          freeze_id |-> freeze_id,
          next_action |-> _determine_next_action(decision, m.frozen_states[freeze_id],
                                                 mod_action, cs)]

IsError(result) == "error" \in DOMAIN result

\* HITLManager.create_virtual_rejection_cycle: its context_update
create_virtual_rejection_cycle(frozen, rejection_reason) ==
    [human_rejected |-> TRUE,
     rejection_reason |-> rejection_reason,
     previous_proposal |-> frozen.pending_action,
     retry_guidance |-> "Consider alternative approaches based on human feedback"]

\* HITLManager.cleanup_frozen_state
cleanup_frozen_state(m, freeze_id) ==
    IF freeze_id \in DOMAIN m.frozen_states
    THEN [m EXCEPT !.frozen_states = [f \in DOMAIN @ \ {freeze_id} |-> @[f]]]
    ELSE m

-----------------------------------------------------------------------------
(* MetaPrompt and Memory *)

\* MetaPrompt.get_state: the rules are fixed
MetaPromptState == "rules"

\* a faulty variant of validate_issues: the rule must_cite_stored_evidence is off
SkipsEvidenceRule(cog) ==
    IF cog.is_final_action /\ ~cog.control_validated
    THEN <<"Final action without Control validation">> ELSE << >>

\* MetaPrompt.validate: the list of issues
validate_issues(cog) ==
    (IF cog.evidence_refs = << >> THEN <<"Missing evidence citations">> ELSE << >>)
    \o (IF cog.is_final_action /\ ~cog.control_validated
        THEN <<"Final action without Control validation">> ELSE << >>)

\* Memory.__init__
NewMemory == [store |-> << >>, history |-> << >>, evidence_cache |-> << >>]

\* Memory.write (evidence_id is None in every call the loop makes)
write(mem, key, value) ==
    [mem EXCEPT !.store = (key :> [value |-> value, evidence_id |-> None]) @@ @]

\* a faulty variant of has_evidence: the evidence cache is never hit
NeverHasEvidence(mem, evidence_id) == FALSE

\* Memory.has_evidence; the key f"evidence_{tool}_{json}" is the pair (tool, parameters)
has_evidence(mem, evidence_id) == evidence_id \in DOMAIN mem.evidence_cache

\* a faulty variant of store_evidence: nothing is put in the evidence cache
StoresNothing(mem, evidence_id, data) == mem

\* Memory.store_evidence
store_evidence(mem, evidence_id, data) ==
    [mem EXCEPT !.evidence_cache = (evidence_id :> data) @@ @]

\* a LoopTrace; input_state and output_state are the references the code stores (0: a literal)
LoopTrace(module, n, input_state, output_state, validation_result) ==
    [module |-> module, loop_id |-> n, input_state |-> input_state,
     output_state |-> output_state, validation_result |-> validation_result]

\* Memory.log_trace
log_trace(mem, trace) == [mem EXCEPT !.history = Append(@, trace)]

\* Memory.get_state_summary
get_state_summary(mem) ==
    [stored_values |-> [k \in DOMAIN mem.store |-> mem.store[k].value],
     available_evidence |-> DOMAIN mem.evidence_cache,
     loop_count |-> Len(mem.history)]

\* Memory.get_snapshot: a fresh dict
get_snapshot(mem) == Val([store |-> mem.store, history_length |-> Len(mem.history)])

\* a faulty variant of restore_snapshot: the store is left as it is
KeepStore(mem, snapshot) == mem

\* Memory.restore_snapshot: snapshot is the contents of the snapshot dict
restore_snapshot(mem, snapshot) == [mem EXCEPT !.store = snapshot.store]

\* Memory.get_evidence_snapshot: a fresh dict
get_evidence_snapshot(mem) == Val(mem.evidence_cache)

\* Memory.restore_evidence
restore_evidence(mem, evidence_snapshot) == [mem EXCEPT !.evidence_cache = evidence_snapshot]

-----------------------------------------------------------------------------
(* Context dicts *)

NoResult == [status |-> None, of |-> NoneAction]

\* the context run() builds
NewContext(task) ==
    [task |-> task, retrieval_plan |-> RetrievalPlan, status |-> "in_progress",
     last_rejection |-> None, last_action_result |-> NoResult,
     human_rejected |-> FALSE, rejection_reason |-> None, retry_guidance |-> None,
     previous_proposal |-> 0]

\* context.update(patch) for a rejection patch
MergePatch(ctx, patch) ==
    [ctx EXCEPT !.human_rejected = patch.human_rejected,
                !.rejection_reason = patch.rejection_reason,
                !.retry_guidance = patch.retry_guidance,
                !.previous_proposal = patch.previous_proposal]

\* the three context.pop calls after cognition
PopRejection(ctx) ==
    [ctx EXCEPT !.human_rejected = FALSE, !.rejection_reason = None, !.retry_guidance = None]

\* no rejection patch pending (_resume_context is None)
NoPatch == [human_rejected |-> FALSE, rejection_reason |-> None, previous_proposal |-> 0,
            retry_guidance |-> None]

-----------------------------------------------------------------------------
(* The stages of StructuredCognitiveLoopWithHITL *)

\* StructuredCognitiveLoopWithHITL.retrieval: the Memory after the call
retrieval(mem, task) ==
    log_trace(write(write(mem, "task", task), "retrieval_plan", RetrievalPlan),
              LoopTrace("Retrieval", 1, 0, 0, None))

\* a faulty variant of mark_validated: the flag is not set before validate is called
LeaveUnmarked(cog) == cog

\* control(): the cognition output after line 367-368
mark_validated(cog) ==
    IF cog.is_final_action THEN [cog EXCEPT !.control_validated = TRUE] ELSE cog

\* MetaPrompt.validate line 107: the message of a failed validation
violations_message(issues) ==
    LET RECURSIVE Join(_)
        Join(n) == IF n = 1 THEN issues[1] ELSE Join(n - 1) \o "; " \o issues[n]
    IN "VIOLATIONS: " \o Join(Len(issues))

\* a faulty variant of control_verdict: every proposal passes
AlwaysPass(mem, cog) == [is_valid |-> TRUE, message |-> "PASS"]

\* control(): (is_valid, message) for the marked cognition output
control_verdict(mem, cog) ==
    LET issues == validate_issues(cog)
        tool_name == cog.proposed_action.tool_name
    IN IF tool_name \notin {"", None} /\ has_evidence(mem, cog.proposed_action)
       THEN [is_valid |-> FALSE, message |-> "REJECTED: Redundant tool call (evidence already in Memory)"]
       ELSE IF issues = << >>
       THEN [is_valid |-> TRUE, message |-> "PASS"]
       ELSE [is_valid |-> FALSE, message |-> violations_message(issues)]

\* a faulty variant of action: what the registry raises is not turned into a result
FailureLost(mem, ex, loops, cog, mod_action) ==
    LET proposed_action == OrElse(mod_action, cog.proposed_action)
        tool_name == proposed_action.tool_name
    IN IF tool_name \in RegisteredTools
       THEN [memory |-> log_trace(store_evidence(mem, proposed_action, "result"),
                                  LoopTrace("Action", loops, 0, 0, None)),
             executed |-> Append(ex, proposed_action),
             result |-> [status |-> "ok", of |-> proposed_action]]
       ELSE [memory |-> mem, executed |-> ex,
             result |-> [status |-> "no_action", of |-> proposed_action]]

\* a faulty variant of action: the evidence key is stored before the registry is called
EvidenceBeforeCall(mem, ex, loops, cog, mod_action) ==
    LET proposed_action == OrElse(mod_action, cog.proposed_action)
        tool_name == proposed_action.tool_name
    IN IF tool_name \in {"", None}
       THEN [memory |-> mem, executed |-> ex,
             result |-> [status |-> "no_action", of |-> proposed_action]]
       ELSE IF tool_name \in RegisteredTools
       THEN [memory |-> log_trace(store_evidence(mem, proposed_action, "result"),
                                  LoopTrace("Action", loops, 0, 0, None)),
             executed |-> Append(ex, proposed_action),
             result |-> [status |-> "ok", of |-> proposed_action]]
       ELSE [memory |-> store_evidence(mem, proposed_action, "result"), executed |-> ex,
             result |-> [status |-> "error", of |-> proposed_action]]

\* action(): the Memory and the registry calls after the call, and what it returns.
\* A registered tool returns its result; ToolRegistry.execute raises for any other name.
action(mem, ex, loops, cog, mod_action) ==
    LET proposed_action == OrElse(mod_action, cog.proposed_action)
        tool_name == proposed_action.tool_name
    IN IF tool_name \in {"", None}
       THEN [memory |-> mem, executed |-> ex,
             result |-> [status |-> "no_action", of |-> proposed_action]]
       ELSE IF tool_name \in RegisteredTools
       THEN [memory |-> log_trace(store_evidence(mem, proposed_action, "result"),
                                  LoopTrace("Action", loops, 0, 0, None)),
             executed |-> Append(ex, proposed_action),
             result |-> [status |-> "ok", of |-> proposed_action]]
       ELSE [memory |-> mem, executed |-> ex,
             result |-> [status |-> "error", of |-> proposed_action]]

\* what a decision source can answer
Answer(decision, feedback, mod_action, rationale) ==
    [decision |-> decision, feedback |-> feedback, modified_action |-> mod_action,
     rationale |-> rationale]

Feedbacks == {"wrong recipient"}
ModParams == {"p2"}

\* a faulty variant of HandlerAnswers: the handler of auto mode rejects
AutoRejects(mode, level, cog) ==
    IF mode = "auto"
    THEN {Answer("reject", None, NoneAction, "Auto-rejected")}
    ELSE IF mode = "interactive"
    THEN {Answer("approve", None, NoneAction, None)}
         \cup {Answer("reject", f, NoneAction, "Human rejected action") : f \in Feedbacks}
         \cup {Answer("modify", None, Action(cog.proposed_action.tool_name, p),
                      "Human modified action parameters") : p \in ModParams}
    ELSE IF level = "notify"
    THEN {Answer("approve", None, NoneAction, "Auto-approved (notify level)")}
    ELSE {Answer("defer", None, NoneAction, None)}

\* hitl_check lines 438-448: the answers of the handler of the mode; "defer" stands
\* for the branch that returns (False, None) without a decision
HandlerAnswers(mode, level, cog) ==
    IF mode = "auto"
    THEN {Answer("approve", None, NoneAction, "Auto-approved for testing")}
    ELSE IF mode = "interactive"
    THEN {Answer("approve", None, NoneAction, None)}
         \cup {Answer("reject", f, NoneAction, "Human rejected action") : f \in Feedbacks}
         \cup {Answer("modify", None, Action(cog.proposed_action.tool_name, p),
                      "Human modified action parameters") : p \in ModParams}
    ELSE IF level = "notify"
    THEN {Answer("approve", None, NoneAction, "Auto-approved (notify level)")}
    ELSE {Answer("defer", None, NoneAction, None)}

\* a faulty variant of ResolvedAction: a replacement given by value is dropped
DropsReplacement(next_action, cs) ==
    IF next_action.by_ref THEN cs[next_action.ref].proposed_action ELSE NoneAction

\* the action a next_action of kind execute names, read through the heap
ResolvedAction(next_action, cs) ==
    IF next_action.by_ref THEN cs[next_action.ref].proposed_action
    ELSE next_action.proposed_action

\* _generate_audit_report: the summary of the report
Summary(m, mem, loops) ==
    [total_loops |-> loops,
     policy_violations |->
         Cardinality({i \in DOMAIN mem.history : mem.history[i].validation_result = "False"}),
     hitl_interventions |-> Len(m.hitl_traces),
     hitl_approvals |->
         Cardinality({i \in DOMAIN m.hitl_traces : m.hitl_traces[i].event_type = "approved"}),
     hitl_rejections |->
         Cardinality({i \in DOMAIN m.hitl_traces : m.hitl_traces[i].event_type = "rejected"}),
     final_state |-> get_state_summary(mem)]

Report(m, mem, loops) == [kind |-> "report", summary |-> Summary(m, mem, loops)]
ErrorValue(msg) == [kind |-> "error", error |-> msg]
NoReturn == [kind |-> "none"]

-----------------------------------------------------------------------------
(* History variables *)

Call(op, freeze_id, decision) == [op |-> op, freeze_id |-> freeze_id, decision |-> decision]

HistInit ==
    [cognitions |-> 0,            \* oracle calls made
     live_at_freeze |-> << >>,    \* per snapshot: the live store and evidence cache at freeze time
     thawed |-> 0,                \* what the client's last thaw_state returned
     mutations |-> 0,             \* in-place changes made by the direct client
     held |-> << >>,              \* per snapshot: the object freeze_state returned to the client
     suspended |-> << >>,         \* per snapshot left undecided by hitl_check: the loop then
     resume_args |-> [decision |-> None, feedback |-> None, modified_action |-> NoneAction,
                      rationale |-> None],   \* the arguments of the last resume_from_freeze
     call |-> Call("none", 0, None),   \* the client's last call
     before_resume |-> [store |-> << >>, evidence_cache |-> << >>, loop_counter |-> 0,
                        history |-> << >>, executed |-> << >>, ctx |-> NewContext(None),
                        decided |-> FALSE],
                                  \* the live values when resume_from_freeze was last called
     cog_input |-> [context |-> NewContext(None), state_summary |-> get_state_summary(NewMemory)]]
                                  \* what the last reasoning call was given

\* the audit log holds a decision event of snapshot fid
HasDecision(m, fid) ==
    \E i \in DOMAIN m.hitl_traces :
        m.hitl_traces[i].freeze_id = fid /\ m.hitl_traces[i].event_type \in DecisionEvents

\* the live contents behind the dicts handed to freeze_state
LiveNow(memory_state, evidence_cache, mem) ==
    [memory |-> Deref(memory_state, mem), evidence |-> Deref(evidence_cache, mem)]

-----------------------------------------------------------------------------
(* The control loop: run, resume_from_freeze, _continue_execution *)

Modes == {"interactive", "auto", "disabled", "deferred"}

\* StructuredCognitiveLoopWithHITL.__init__; "deferred" stands for any hitl_mode other
\* than the three named ones: no handler is attached and the check is not disabled
Init ==
    /\ hitl_manager = NewManager
    /\ cogs = << >>
    /\ ctxs = << >>
    /\ memory = NewMemory
    /\ loop_counter = 0
    /\ hitl_mode \in Modes
    /\ resume_context = NoPatch
    /\ is_resumed = FALSE
    /\ pc = "idle"
    /\ context = 0
    /\ cognition_output = 0
    /\ modified_action = NoneAction
    /\ in_continue = FALSE
    /\ ret = NoReturn
    /\ executed = << >>
    /\ calls = 0
    /\ hist = HistInit

\* run(), up to the while loop
Run(task) ==
    /\ pc = "idle"
    /\ calls < MaxCalls
    /\ memory' = retrieval(memory, task)
    /\ ctxs' = Append(ctxs, NewContext(task))
    /\ context' = Len(ctxs) + 1
    /\ in_continue' = FALSE
    /\ pc' = "loop"
    /\ ret' = NoReturn
    /\ calls' = calls + 1
    /\ hist' = [hist EXCEPT !.call = Call("run", 0, None)]
    /\ UNCHANGED <<hitl_manager, cogs, loop_counter, hitl_mode, resume_context, is_resumed,
                   cognition_output, modified_action, executed>>

\* the while test failing (run line 550, _continue_execution line 669): the report
LoopExit ==
    /\ pc = "loop"
    /\ loop_counter >= MaxLoops
    /\ pc' = "idle"
    /\ ret' = Report(hitl_manager, memory, loop_counter)
    /\ UNCHANGED <<hitl_manager, cogs, ctxs, memory, loop_counter, hitl_mode, resume_context,
                   is_resumed, context, cognition_output, modified_action, in_continue,
                   executed, calls, hist>>

\* run lines 552-554: only the loop of run merges a pending rejection patch
MergeResumeContext(ctx, patch, continuing) ==
    IF ~continuing /\ patch # NoPatch THEN MergePatch(ctx, patch) ELSE ctx

\* a faulty variant of next_loop_counter: cognition() leaves the counter alone
SameLoopCounter(loops) == loops

\* cognition line 293: self.loop_counter += 1
next_loop_counter(loops) == loops + 1

\* the while test holding, the merge of the rejection patch (run only), cognition()
\* with the oracle's answer, and the three pops
Cognition(out) ==
    /\ pc = "loop"
    /\ loop_counter < MaxLoops
    /\ hist.cognitions < MaxCognitions
    /\ LET given == MergeResumeContext(ctxs[context], resume_context, in_continue)
       IN /\ ctxs' = [ctxs EXCEPT ![context] = PopRejection(given)]
          /\ hist' = [hist EXCEPT !.cognitions = @ + 1,
                                  !.cog_input = [context |-> given,
                                                 state_summary |-> get_state_summary(memory)]]
    /\ resume_context' = IF in_continue THEN resume_context ELSE NoPatch
    /\ loop_counter' = next_loop_counter(loop_counter)
    /\ cogs' = Append(cogs, out)
    /\ cognition_output' = Len(cogs) + 1
    /\ memory' = log_trace(memory, LoopTrace("Cognition", next_loop_counter(loop_counter), context,
                                             Len(cogs) + 1, None))
    /\ pc' = "control"
    /\ UNCHANGED <<hitl_manager, hitl_mode, is_resumed, context, modified_action,
                   in_continue, ret, executed, calls>>

\* control() and the branch on its verdict
Control ==
    /\ pc = "control"
    /\ LET cog == mark_validated(cogs[cognition_output])
           v == control_verdict(memory, cog)
       IN /\ cogs' = [cogs EXCEPT ![cognition_output] = cog]
          /\ memory' = log_trace(memory, LoopTrace("Control", loop_counter, cognition_output, 0,
                                                   IF v.is_valid THEN "True" ELSE "False"))
          /\ IF v.is_valid
             THEN /\ pc' = "hitl"
                  /\ ctxs' = ctxs
             ELSE /\ pc' = "loop"
                  /\ ctxs' = [ctxs EXCEPT ![context].last_rejection = v.message]
    /\ UNCHANGED <<hitl_manager, loop_counter, hitl_mode, resume_context, is_resumed, context,
                   cognition_output, modified_action, in_continue, ret, executed, calls, hist>>

\* hitl_check line 479: result.get("feedback", "Human rejected the action")
ResultFeedback(result) ==
    IF "feedback" \in DOMAIN result THEN result.feedback ELSE "Human rejected the action"

\* hitl_check lines 408-417: the check is disabled or the policy asks for nothing
HitlPass ==
    /\ \/ hitl_mode = "disabled"
       \/ check_intervention(hitl_manager.policy, cogs[cognition_output], ctxs[context],
                             loop_counter).level = "none"
    /\ pc' = "action"
    /\ modified_action' = NoneAction
    /\ UNCHANGED <<hitl_manager, cogs, ctxs, memory, resume_context, ret, hist>>

\* hitl_check lines 423-435: freeze_state and request_approval
HitlFrozen ==
    LET v == check_intervention(hitl_manager.policy, cogs[cognition_output], ctxs[context],
                                loop_counter)
        fz == freeze_state(hitl_manager, cogs, ctxs, memory, loop_counter, cognition_output,
                           get_snapshot(memory), get_evidence_snapshot(memory), context,
                           MetaPromptState, v.level, v.reason)
    IN [fz EXCEPT !.m = request_approval(fz.m, fz.frozen)]

HitlEscalates ==
    /\ hitl_mode # "disabled"
    /\ check_intervention(hitl_manager.policy, cogs[cognition_output], ctxs[context],
                          loop_counter).level # "none"
    /\ hitl_manager.freeze_counter < MaxFreezes

HistFreeze(h, fid, memory_state, evidence_cache, mem) ==
    [h EXCEPT !.live_at_freeze = (fid :> LiveNow(memory_state, evidence_cache, mem)) @@ @]

\* hitl_check lines 438-484 with a decision obtained inline
HitlDecided(ans) ==
    /\ HitlEscalates
    /\ ans.decision # "defer"
    /\ LET fz == HitlFrozen
           fid == fz.frozen.freeze_id
           result == decision_result(fz.m, fid, ans.decision, ans.modified_action, fz.cogs)
           m3 == process_human_decision(fz.m, fid, ans.decision, ans.feedback,
                                        ans.modified_action, ans.rationale)
       IN /\ cogs' = fz.cogs
          /\ ctxs' = fz.ctxs
          /\ memory' = log_trace(memory, LoopTrace("HITL", loop_counter, 0, 0, None))
          /\ hitl_manager' = thaw_state(m3, fid)
          /\ hist' = HistFreeze(hist, fid, get_snapshot(memory), get_evidence_snapshot(memory),
                                memory)
          /\ IF result.next_action.action = "execute"
             THEN LET modified == ResolvedAction(result.next_action, fz.cogs)
                  IN /\ modified_action' =
                            IF modified # fz.cogs[cognition_output].proposed_action
                            THEN modified ELSE NoneAction
                     /\ pc' = "action"
                     /\ resume_context' = resume_context
             ELSE /\ resume_context' =
                        create_virtual_rejection_cycle(fz.frozen, ResultFeedback(result))
                  /\ modified_action' = NoneAction
                  /\ pc' = "loop"
    /\ ret' = ret

\* the loop as it stands on entry to hitl_check
LoopNow ==
    [memory |-> memory, loop_counter |-> loop_counter, executed |-> executed,
     ctx |-> ctxs[context], cog |-> cogs[cognition_output], pending |-> cognition_output,
     resume_context |-> resume_context, in_continue |-> in_continue]

\* hitl_check lines 446-448, then the break of the loop and the report
HitlBlocked ==
    /\ HitlEscalates
    /\ LET fz == HitlFrozen
       IN /\ cogs' = fz.cogs
          /\ ctxs' = fz.ctxs
          /\ hitl_manager' = fz.m
          /\ hist' = [HistFreeze(hist, fz.frozen.freeze_id, get_snapshot(memory),
                                 get_evidence_snapshot(memory), memory)
                         EXCEPT !.suspended = (fz.frozen.freeze_id :> LoopNow) @@ @]
          /\ ret' = Report(fz.m, memory, loop_counter)
    /\ pc' = "idle"
    /\ UNCHANGED <<memory, resume_context, modified_action>>

\* hitl_check() and the branch of the loop on what it returns
HitlCheck ==
    /\ pc = "hitl"
    /\ LET answers == HandlerAnswers(hitl_mode, check_intervention(hitl_manager.policy,
                          cogs[cognition_output], ctxs[context], loop_counter).level,
                          cogs[cognition_output])
       IN \/ HitlPass
          \/ \E ans \in answers : HitlDecided(ans)
          \/ (Answer("defer", None, NoneAction, None) \in answers /\ HitlBlocked)
    /\ UNCHANGED <<loop_counter, hitl_mode, is_resumed, context, cognition_output,
                   in_continue, executed, calls>>

\* a faulty variant of completion: the loop never ends on a final action
NeverCompletes(cog, result) == FALSE

\* the completion test after an action (run line 591, _continue_execution line 693,
\* resume_from_freeze line 651): only the flag of the reasoning output is read
completion(cog, result) == cog.is_final_action

\* action() in the loop of run or _continue_execution, the update of the context and
\* the completion test
ActionStep ==
    /\ pc = "action"
    /\ LET cog == cogs[cognition_output]
           r == action(memory, executed, loop_counter, cog, modified_action)
       IN /\ memory' = r.memory
          /\ executed' = r.executed
          /\ ctxs' = [ctxs EXCEPT ![context].last_action_result = r.result]
          /\ IF completion(cog, r.result)
             THEN /\ pc' = "idle"
                  /\ ret' = Report(hitl_manager, r.memory, loop_counter)
             ELSE /\ pc' = "loop"
                  /\ ret' = ret
    /\ UNCHANGED <<hitl_manager, cogs, loop_counter, hitl_mode, resume_context, is_resumed,
                   context, cognition_output, modified_action, in_continue, calls, hist>>

Absent == "absent"

\* the keyword arguments a caller of resume_from_freeze may pass
ResumeArgs ==
    { Answer("approve", Absent, NoneAction, Absent),
      Answer("reject", "wrong recipient", NoneAction, Absent),
      Answer("reject", Absent, NoneAction, Absent),
      Answer("modify", Absent, Action("send_email", "p2"), Absent),
      Answer("modify", Absent, NoneAction, Absent),
      Answer("postpone", Absent, NoneAction, Absent) }

\* a keyword argument left out takes the default None of process_human_decision
Given(x) == IF x = Absent THEN None ELSE x

\* resume_from_freeze line 659: kwargs.get("feedback", "Action rejected by human")
KwFeedback(a) == IF a.feedback = Absent THEN "Action rejected by human" ELSE a.feedback

\* resume_from_freeze line 633
RestoredCounter(frozen, live) == frozen.loop_counter

\* resume_from_freeze lines 616-663, up to the call of action() or _continue_execution
Resume(fid, a) ==
    /\ pc = "idle"
    /\ calls < MaxCalls
    /\ calls' = calls + 1
    /\ LET result == decision_result(hitl_manager, fid, a.decision, a.modified_action, cogs)
           m1 == process_human_decision(hitl_manager, fid, a.decision, Given(a.feedback),
                                        a.modified_action, Given(a.rationale))
       IN IF IsError(result)
          THEN /\ ret' = ErrorValue(result.error)
               /\ hitl_manager' = m1
               /\ hist' = [hist EXCEPT !.call = Call("resume", fid, a.decision)]
               /\ UNCHANGED <<ctxs, memory, loop_counter, is_resumed, pc, context,
                              cognition_output, modified_action, in_continue>>
          ELSE LET frozen == m1.frozen_states[fid]
               IN /\ memory' = restore_evidence(
                                   restore_snapshot(memory, Deref(frozen.memory_snapshot, memory)),
                                   Deref(frozen.evidence_cache, memory))
                  /\ loop_counter' = RestoredCounter(frozen, loop_counter)
                  /\ hitl_manager' = thaw_state(m1, fid)
                  /\ context' = frozen.context
                  /\ ret' = NoReturn
                  /\ hist' = [hist EXCEPT !.call = Call("resume", fid, a.decision),
                                          !.resume_args = a,
                                          !.before_resume =
                                              [store |-> memory.store,
                                               evidence_cache |-> memory.evidence_cache,
                                               loop_counter |-> loop_counter,
                                               history |-> memory.history,
                                               executed |-> executed,
                                               ctx |-> ctxs[frozen.context],
                                               decided |-> HasDecision(hitl_manager, fid)]]
                  /\ IF result.next_action.action = "execute"
                     THEN /\ modified_action' = ResolvedAction(result.next_action, cogs)
                          /\ cognition_output' = frozen.cognition_output
                          /\ pc' = "resume_action"
                          /\ UNCHANGED <<ctxs, is_resumed, in_continue>>
                     ELSE /\ ctxs' = [ctxs EXCEPT ![frozen.context] =
                                         [@ EXCEPT !.human_rejected = TRUE,
                                                   !.rejection_reason = KwFeedback(a),
                                                   !.retry_guidance =
                                                       "Consider alternative approaches based on human feedback"]]
                          /\ is_resumed' = TRUE
                          /\ in_continue' = TRUE
                          /\ pc' = "loop"
                          /\ UNCHANGED <<cognition_output, modified_action>>
    /\ UNCHANGED <<cogs, hitl_mode, resume_context, executed>>

\* resume_from_freeze lines 642-653: the resolved action is executed
ResumeAction ==
    /\ pc = "resume_action"
    /\ LET cog == cogs[cognition_output]
           r == action(memory, executed, loop_counter, cog, modified_action)
       IN /\ memory' = r.memory
          /\ executed' = r.executed
          /\ ctxs' = [ctxs EXCEPT ![context].last_action_result = r.result]
          /\ IF ~completion(cog, r.result)
             THEN /\ is_resumed' = TRUE
                  /\ in_continue' = TRUE
                  /\ pc' = "loop"
                  /\ ret' = ret
             ELSE /\ pc' = "idle"
                  /\ ret' = Report(hitl_manager, r.memory, loop_counter)
                  /\ UNCHANGED <<is_resumed, in_continue>>
    /\ UNCHANGED <<hitl_manager, cogs, loop_counter, hitl_mode, resume_context, context,
                   cognition_output, modified_action, calls, hist>>

\* a caller discards a snapshot: hitl_manager.cleanup_frozen_state
Cleanup(fid) ==
    /\ pc = "idle"
    /\ calls < MaxCalls
    /\ fid \in DOMAIN hitl_manager.frozen_states
    /\ calls' = calls + 1
    /\ hitl_manager' = cleanup_frozen_state(hitl_manager, fid)
    /\ hist' = [hist EXCEPT !.call = Call("cleanup", fid, None)]
    /\ UNCHANGED <<cogs, ctxs, memory, loop_counter, hitl_mode, resume_context, is_resumed, pc,
                   context, cognition_output, modified_action, in_continue, ret, executed>>

FreezeIds == 1..MaxFreezes

Next ==
    \/ \E task \in Tasks : Run(task)
    \/ LoopExit
    \/ \E out \in OracleOutputs : Cognition(out)
    \/ Control
    \/ HitlCheck
    \/ ActionStep
    \/ \E fid \in FreezeIds, a \in ResumeArgs : Resume(fid, a)
    \/ ResumeAction
    \/ \E fid \in FreezeIds : Cleanup(fid)

Spec == Init /\ [][Next]_vars

-----------------------------------------------------------------------------
(* A direct client of HITLManager, as demonstrate_freeze_resume and                *)
(* demonstrate_virtual_rejection are: it builds its own dicts, hands them to       *)
(* freeze_state, keeps them, and calls the manager's operations in any order.      *)

InitMgr ==
    /\ hitl_manager = NewManager
    /\ cogs = << >>
    /\ ctxs = <<NewContext("task1")>>
    /\ memory = NewMemory
    /\ loop_counter = 0
    /\ hitl_mode = "disabled"
    /\ resume_context = NoPatch
    /\ is_resumed = FALSE
    /\ pc = "client"
    /\ context = 1
    /\ cognition_output = 0
    /\ modified_action = NoneAction
    /\ in_continue = FALSE
    /\ ret = NoReturn
    /\ executed = << >>
    /\ calls = 0
    /\ hist = HistInit

LoopVars == <<loop_counter, hitl_mode, resume_context, is_resumed, pc, context,
              cognition_output, modified_action, in_continue, executed>>

ClientOutputs ==
    { CogOutput("send mail", Action("send_email", "p1"), <<"ev1">>, TRUE, 90) }

\* the client calls freeze_state with a new cognition output, its context dict, and
\* either its live store and evidence cache or fresh copies of them
MgrFreeze(out, live) ==
    /\ pc = "client"
    /\ calls < MaxCalls
    /\ hitl_manager.freeze_counter < MaxFreezes
    /\ LET memory_state == IF live THEN LiveStore(Len(memory.history)) ELSE get_snapshot(memory)
           evidence_cache == IF live THEN LiveEvidence ELSE get_evidence_snapshot(memory)
           fz == freeze_state(hitl_manager, Append(cogs, out), ctxs, memory, 3, Len(cogs) + 1,
                              memory_state, evidence_cache, context, MetaPromptState,
                              "approve", "High-risk tool")
       IN /\ hitl_manager' = fz.m
          /\ cogs' = fz.cogs
          /\ ctxs' = fz.ctxs
          /\ hist' = [HistFreeze(hist, fz.frozen.freeze_id, memory_state, evidence_cache, memory)
                         EXCEPT !.call = Call("freeze_state", fz.frozen.freeze_id, None),
                                !.held = (fz.frozen.freeze_id :> fz.frozen) @@ @]
    /\ calls' = calls + 1
    /\ ret' = NoReturn
    /\ UNCHANGED <<memory, LoopVars>>

\* the cognition outputs the client built and handed to freeze_state
ClientCogs ==
    {hitl_manager.hitl_traces[i].pending_action : i \in DOMAIN hitl_manager.hitl_traces}
        \cap DOMAIN cogs

\* the client changes, in place, the proposed_action of a cognition output it built
MgrMutateAction(r) ==
    /\ pc = "client"
    /\ hist.mutations < MaxMutations
    /\ r \in ClientCogs
    /\ cogs[r].proposed_action.parameters # "p9"
    /\ cogs' = [cogs EXCEPT ![r].proposed_action.parameters = "p9"]
    /\ hist' = [hist EXCEPT !.mutations = @ + 1]
    /\ UNCHANGED <<hitl_manager, ctxs, memory, ret, calls, LoopVars>>

\* the client changes another entry of a cognition output it built
MgrMutateCog(r) ==
    /\ pc = "client"
    /\ hist.mutations < MaxMutations
    /\ r \in ClientCogs
    /\ cogs[r].reasoning # "edited"
    /\ cogs' = [cogs EXCEPT ![r].reasoning = "edited"]
    /\ hist' = [hist EXCEPT !.mutations = @ + 1]
    /\ UNCHANGED <<hitl_manager, ctxs, memory, ret, calls, LoopVars>>

\* the client writes to the live Memory: Memory.write and Memory.store_evidence
MgrWrite ==
    /\ pc = "client"
    /\ hist.mutations < MaxMutations
    /\ "note" \notin DOMAIN memory.store
    /\ memory' = store_evidence(write(memory, "note", "n1"), Action("get_weather", "p1"),
                                "result")
    /\ hist' = [hist EXCEPT !.mutations = @ + 1]
    /\ UNCHANGED <<hitl_manager, cogs, ctxs, ret, calls, LoopVars>>

\* the client changes its context dict
MgrMutateContext ==
    /\ pc = "client"
    /\ hist.mutations < MaxMutations
    /\ ctxs[context].status # "changed"
    /\ ctxs' = [ctxs EXCEPT ![context].status = "changed"]
    /\ hist' = [hist EXCEPT !.mutations = @ + 1]
    /\ UNCHANGED <<hitl_manager, cogs, memory, ret, calls, LoopVars>>

MgrThaw(fid) ==
    /\ pc = "client"
    /\ calls < MaxCalls
    /\ hitl_manager' = thaw_state(hitl_manager, fid)
    /\ hist' = [hist EXCEPT !.thawed = thaw_result(hitl_manager, fid),
                            !.call = Call("thaw_state", fid, None)]
    /\ calls' = calls + 1
    /\ ret' = NoReturn
    /\ UNCHANGED <<cogs, ctxs, memory, LoopVars>>

MgrArgs ==
    { Answer("approve", None, NoneAction, "Confirmed destination is correct"),
      Answer("reject", "wrong recipient", NoneAction, "Email recipient is incorrect"),
      Answer("modify", None, Action("send_email", "p2"), None),
      Answer("modify", None, NoneAction, None),
      Answer("postpone", None, NoneAction, None) }

MgrDecide(fid, a) ==
    /\ pc = "client"
    /\ calls < MaxCalls
    /\ hitl_manager' = process_human_decision(hitl_manager, fid, a.decision, a.feedback,
                                              a.modified_action, a.rationale)
    /\ ret' = LET result == decision_result(hitl_manager, fid, a.decision, a.modified_action, cogs)
              IN IF IsError(result) THEN ErrorValue(result.error)
                 ELSE [kind |-> "processed", result |-> result]
    /\ hist' = [hist EXCEPT !.call = Call("process_human_decision", fid, a.decision)]
    /\ calls' = calls + 1
    /\ UNCHANGED <<cogs, ctxs, memory, LoopVars>>

\* the client calls request_approval with a snapshot object freeze_state gave it,
\* whether or not the manager still stores it
MgrRequest(fid) ==
    /\ pc = "client"
    /\ calls < MaxCalls
    /\ fid \in DOMAIN hist.held
    /\ hitl_manager' = request_approval(hitl_manager, hist.held[fid])
    /\ hist' = [hist EXCEPT !.call = Call("request_approval", fid, None)]
    /\ calls' = calls + 1
    /\ ret' = NoReturn
    /\ UNCHANGED <<cogs, ctxs, memory, LoopVars>>

MgrCleanup(fid) ==
    /\ pc = "client"
    /\ calls < MaxCalls
    /\ hitl_manager' = cleanup_frozen_state(hitl_manager, fid)
    /\ hist' = [hist EXCEPT !.call = Call("cleanup_frozen_state", fid, None)]
    /\ calls' = calls + 1
    /\ ret' = NoReturn
    /\ UNCHANGED <<cogs, ctxs, memory, LoopVars>>

NextMgr ==
    \/ \E out \in ClientOutputs, live \in BOOLEAN : MgrFreeze(out, live)
    \/ \E r \in DOMAIN cogs : MgrMutateAction(r)
    \/ \E r \in DOMAIN cogs : MgrMutateCog(r)
    \/ MgrWrite
    \/ MgrMutateContext
    \/ \E fid \in FreezeIds : MgrThaw(fid)
    \/ \E fid \in FreezeIds, a \in MgrArgs : MgrDecide(fid, a)
    \/ \E fid \in FreezeIds : MgrRequest(fid)
    \/ \E fid \in FreezeIds : MgrCleanup(fid)

SpecMgr == InitMgr /\ [][NextMgr]_vars

-----------------------------------------------------------------------------
(* A direct client of HITLPolicy.evaluate and HITLManager.check_intervention: a     *)
(* policy configuration, a cognition output and a loop counter are chosen, and the *)
(* policy is asked, possibly several times.                                        *)

\* custom handlers registered with register_handler; each returns a fixed (level, reason)
Handlers ==
    ("send_email" :> Verdict("none", ""))
    @@ ("book_flight" :> Verdict("block", "Custom rule"))
    @@ ("get_weather" :> Verdict("confirm", "Custom rule"))

\* policy configurations: HITLPolicy() with policies.update and register_handler
Policies ==
    { [DefaultPolicies EXCEPT !.confirm_on_final_action = f,
                              !.confirm_on_missing_evidence = e,
                              !.always_confirm_tools = a,
                              !.custom_handlers = h] :
        f \in BOOLEAN, e \in BOOLEAN,
        a \in {{"generate_image"}, {"generate_image", "send_email"}},
        h \in {<< >>, Handlers} }

\* the cognition outputs the policy is asked about
PolicyInputs ==
    { CogOutput("r", Action(t, "p1"), refs, final, conf) :
        t \in {"send_email", "generate_image", "get_weather", "book_flight", ""},
        refs \in {<< >>, <<"ev1">>}, final \in BOOLEAN, conf \in {50, 90} }

InitPolicy ==
    /\ \E p \in Policies : hitl_manager = [NewManager EXCEPT !.policy = p]
    /\ \E cog \in PolicyInputs : cogs = <<cog>>
    /\ ctxs = <<NewContext("task1")>>
    /\ memory = NewMemory
    /\ loop_counter \in 0..MaxLoops
    /\ hitl_mode = "disabled"
    /\ resume_context = NoPatch
    /\ is_resumed = FALSE
    /\ pc = "policy"
    /\ context = 1
    /\ cognition_output = 1
    /\ modified_action = NoneAction
    /\ in_continue = FALSE
    /\ ret = NoReturn
    /\ executed = << >>
    /\ calls = 0
    /\ hist = HistInit

\* a call of the policy: what it returns and what it leaves in the objects passed
PolicyCall(op, verdict) ==
    /\ pc = "policy"
    /\ calls < MaxCalls
    /\ LET after == evaluate_frame(hitl_manager.policy, cogs[cognition_output], ctxs[context])
       IN /\ hitl_manager' = [hitl_manager EXCEPT !.policy = after.policy]
          /\ cogs' = [cogs EXCEPT ![cognition_output] = after.cog]
          /\ ctxs' = [ctxs EXCEPT ![context] = after.ctx]
    /\ ret' = [kind |-> "verdict", verdict |-> verdict]
    /\ calls' = calls + 1
    /\ hist' = [hist EXCEPT !.call = Call(op, 0, None)]
    /\ UNCHANGED <<memory, loop_counter, hitl_mode, resume_context, is_resumed, pc, context,
                   cognition_output, modified_action, in_continue, executed>>

\* policy.evaluate(cognition_output, context, loop_counter)
PolicyEvaluate ==
    PolicyCall("evaluate",
               evaluate(hitl_manager.policy, cogs[cognition_output], ctxs[context], loop_counter))

\* hitl_manager.check_intervention(cognition_output, context, loop_counter)
PolicyCheck ==
    PolicyCall("check_intervention",
               check_intervention(hitl_manager.policy, cogs[cognition_output], ctxs[context],
                                  loop_counter))

NextPolicy ==
    \/ PolicyEvaluate
    \/ PolicyCheck

SpecPolicy == InitPolicy /\ [][NextPolicy]_vars

-----------------------------------------------------------------------------
(* Properties *)

\* the indices of the audit events that reference snapshot fid
EventsOf(m, fid) == {i \in DOMAIN m.hitl_traces : m.hitl_traces[i].freeze_id = fid}

\* snapshot fid has been decided
Decided(m, fid) == HasDecision(m, fid)

\* a stored snapshot read through every reference it holds
SnapshotView(frozen, cs, xs, mem) ==
    [freeze_id |-> frozen.freeze_id,
     loop_counter |-> frozen.loop_counter,
     pending_action |-> cs[frozen.pending_action].proposed_action,
     cognition_output |-> cs[frozen.cognition_output],
     memory_snapshot |-> Deref(frozen.memory_snapshot, mem),
     evidence_cache |-> Deref(frozen.evidence_cache, mem),
     context |-> xs[frozen.context],
     metaprompt_state |-> frozen.metaprompt_state,
     intervention_reason |-> frozen.intervention_reason,
     intervention_level |-> frozen.intervention_level]

\* the step is a call of op on snapshot fid by the client
CallStep(op, fid) ==
    /\ calls' = calls + 1
    /\ hist'.call.op = op
    /\ hist'.call.freeze_id = fid

(* C1: once process_human_decision has succeeded for a snapshot identifier, every
   later process_human_decision with that identifier returns an error and appends
   no audit event. *)
C1_DecisionExactlyOnce ==
    [][\A fid \in FreezeIds :
         (Decided(hitl_manager, fid) /\ CallStep("process_human_decision", fid))
         => (ret'.kind = "error"
             /\ hitl_manager'.hitl_traces = hitl_manager.hitl_traces)]_vars

(* C2: resume_from_freeze on a snapshot that already has a decision returns an error
   and changes neither the working store, the evidence cache, the loop counter, the
   audit log nor the executed actions. *)
C2_ResumeResolvedRejected ==
    [][\A fid \in FreezeIds :
         (Decided(hitl_manager, fid) /\ CallStep("resume", fid))
         => (ret'.kind = "error"
             /\ memory' = memory
             /\ loop_counter' = loop_counter
             /\ hitl_manager' = hitl_manager
             /\ pc' = "idle"
             /\ executed' = executed)]_vars

(* C3: a snapshot returned by thaw_state with no decision made on it holds the
   working store and the evidence cache as they were live when freeze_state was
   called, whatever was written to the live Memory since. *)
C3_RoundTrip ==
    \A fid \in DOMAIN hitl_manager.frozen_states :
        (hist.thawed = fid /\ ~Decided(hitl_manager, fid))
        => LET frozen == hitl_manager.frozen_states[fid]
           IN /\ Deref(frozen.memory_snapshot, memory) = hist.live_at_freeze[fid].memory
              /\ Deref(frozen.evidence_cache, memory) = hist.live_at_freeze[fid].evidence

\* a snapshot frozen from the live dicts was thawed after the live Memory was written to
C3_Witness ==
    \E fid \in DOMAIN hitl_manager.frozen_states :
        /\ hist.thawed = fid
        /\ ~Decided(hitl_manager, fid)
        /\ memory.store # hist.live_at_freeze[fid].memory.store
        /\ memory.evidence_cache # hist.live_at_freeze[fid].evidence

(* C4: a change the client makes to a dict it handed to freeze_state changes no
   stored snapshot. *)
C4_NoAliasing ==
    [][hist'.mutations # hist.mutations
       => \A fid \in DOMAIN hitl_manager.frozen_states :
            SnapshotView(hitl_manager'.frozen_states[fid], cogs', ctxs', memory')
            = SnapshotView(hitl_manager.frozen_states[fid], cogs, ctxs, memory)]_vars

(* C5: a stored snapshot does not change as long as it is stored. *)
C5_SnapshotImmutable ==
    [][\A fid \in DOMAIN hitl_manager.frozen_states \cap DOMAIN hitl_manager'.frozen_states :
         SnapshotView(hitl_manager'.frozen_states[fid], cogs', ctxs', memory')
         = SnapshotView(hitl_manager.frozen_states[fid], cogs, ctxs, memory)]_vars

\* the step is resume_from_freeze getting past the decision
ResumeSucceeds == pc = "idle" /\ hist'.call.op = "resume" /\ pc' # "idle" /\ calls' = calls + 1

(* C6: when resume_from_freeze succeeds, the working store, the evidence cache and
   the loop counter equal those of the snapshot before the resolved action is
   executed and before reasoning is called. *)
C6_ResumeRestores ==
    [][ResumeSucceeds
       => LET frozen == hitl_manager'.frozen_states[hist'.call.freeze_id]
          IN /\ memory'.store = Deref(frozen.memory_snapshot, memory').store
             /\ memory'.evidence_cache = Deref(frozen.evidence_cache, memory')
             /\ loop_counter' = frozen.loop_counter
             /\ executed' = executed
             /\ hist'.cognitions = hist.cognitions]_vars

\* resume_from_freeze has restored values that all differed from the live ones
C6_Witness ==
    /\ pc = "resume_action"
    /\ hist.call.op = "resume"
    /\ hist.before_resume.store # memory.store
    /\ hist.before_resume.evidence_cache # memory.evidence_cache
    /\ hist.before_resume.loop_counter # loop_counter

(* C8: no step lowers the loop counter. *)
C8_CounterMonotonic == [][loop_counter' >= loop_counter]_vars

\* the snapshots freeze_state has created
Created == DOMAIN hist.live_at_freeze

\* the indices of the events of one kind that reference snapshot fid
KindOf(m, fid, kind) == {i \in EventsOf(m, fid) : m.hitl_traces[i].event_type = kind}

(* C10: each snapshot created has exactly one state_frozen event, and that event
   comes before every state_thawed event of the same identifier. *)
C10_FrozenOnceBeforeThawed ==
    \A fid \in Created :
        /\ Cardinality(KindOf(hitl_manager, fid, "state_frozen")) = 1
        /\ \A i \in KindOf(hitl_manager, fid, "state_frozen"),
              j \in KindOf(hitl_manager, fid, "state_thawed") : i < j

\* two snapshots were created in runs and both were thawed
C10_Witness ==
    /\ Cardinality(Created) >= 2
    /\ \A fid \in Created : KindOf(hitl_manager, fid, "state_thawed") # {}
    /\ pc = "idle"

\* where the loop stands when it is about to call reasoning again
Observed ==
    [store |-> memory.store,
     evidence_cache |-> memory.evidence_cache,
     loop_counter |-> loop_counter,
     executed |-> executed,
     context |-> MergeResumeContext(ctxs[context], resume_context, in_continue),
     state_summary |-> get_state_summary(memory)]

\* hitl_check lines 451-484 and run lines 585-588 applied to the loop s as it stood on
\* entry to hitl_check, for the decision a on snapshot fid: where the loop of s stands
\* when it is about to call reasoning again
InlineOutcome(s, fid, a, m, cs) ==
    LET result == decision_result(m, fid, a.decision, a.modified_action, cs)
        logged == log_trace(s.memory, LoopTrace("HITL", s.loop_counter, 0, 0, None))
    IN IF result.next_action.action = "execute"
       THEN LET modified == ResolvedAction(result.next_action, cs)
                r == action(logged, s.executed, s.loop_counter, s.cog,
                            IF modified # s.cog.proposed_action THEN modified ELSE NoneAction)
            IN [store |-> r.memory.store,
                evidence_cache |-> r.memory.evidence_cache,
                loop_counter |-> s.loop_counter,
                executed |-> r.executed,
                context |-> MergeResumeContext([s.ctx EXCEPT !.last_action_result = r.result],
                                               s.resume_context, s.in_continue),
                state_summary |-> get_state_summary(r.memory)]
       ELSE [store |-> logged.store,
             evidence_cache |-> logged.evidence_cache,
             loop_counter |-> s.loop_counter,
             executed |-> s.executed,
             context |-> MergeResumeContext(s.ctx,
                             create_virtual_rejection_cycle(m.frozen_states[fid],
                                                            ResultFeedback(result)),
                             s.in_continue),
             state_summary |-> get_state_summary(logged)]

\* the step ends the part of resume_from_freeze that stands for hitl_check and the
\* action, and the loop goes on to reasoning
ResumeBoundary ==
    /\ hist'.call.op = "resume"
    /\ \/ pc = "idle" /\ calls' = calls + 1
       \/ pc = "resume_action"
    /\ pc' = "loop"
    /\ loop_counter' < MaxLoops

\* the resume was the first decision on a snapshot the loop suspended on, called with
\* the loop as the suspension left it
ResumedAsSuspended(fid) ==
    /\ fid \in DOMAIN hist.suspended
    /\ LET b == hist'.before_resume
           s == hist.suspended[fid]
       IN /\ ~b.decided
          /\ b.store = s.memory.store
          /\ b.evidence_cache = s.memory.evidence_cache
          /\ b.history = s.memory.history
          /\ b.loop_counter = s.loop_counter
          /\ b.executed = s.executed
          /\ b.ctx = s.ctx

(* C7: a loop that suspends on an escalated action and is continued by
   resume_from_freeze with a decision stands, when reasoning is next called, where the
   loop would stand had hitl_check obtained the same decision from a handler: same
   working store, evidence cache, loop counter, executed actions, reasoning context
   and state summary. *)
C7_ResumptionEquivalence ==
    [][\A fid \in FreezeIds :
         (ResumeBoundary /\ hist'.call.freeze_id = fid /\ ResumedAsSuspended(fid))
         => Observed' = InlineOutcome(hist.suspended[fid], fid,
                                      [hist'.resume_args EXCEPT !.feedback = Given(@)],
                                      hitl_manager', cogs')]_vars

\* the place of an audit event in the order frozen, requested, decided, thawed
Rank(event_type) ==
    CASE event_type = "state_frozen" -> 1
      [] event_type = "approval_requested" -> 2
      [] event_type \in DecisionEvents -> 3
      [] event_type = "state_thawed" -> 4
      [] OTHER -> 0

(* C9: the audit events of each snapshot identifier appear in the order state_frozen,
   approval_requested, decision event, state_thawed. *)
C9_EventOrder ==
    \A fid \in FreezeIds :
        \A i, j \in EventsOf(hitl_manager, fid) :
            i < j => Rank(hitl_manager.hitl_traces[i].event_type)
                     <= Rank(hitl_manager.hitl_traces[j].event_type)

\* the indices of the audit events the step appends
Appended == DOMAIN hitl_manager'.hitl_traces \ DOMAIN hitl_manager.hitl_traces

(* C11: whenever an audit event carrying a snapshot identifier is appended, the
   manager stores a snapshot with that identifier at that moment. *)
C11_EventsReferToStored ==
    [][\A i \in Appended :
         hitl_manager'.hitl_traces[i].freeze_id \in DOMAIN hitl_manager'.frozen_states]_vars

\* sequence a is the beginning of sequence b
IsPrefix(a, b) == Len(a) <= Len(b) /\ SubSeq(b, 1, Len(a)) = a

(* C12: the audit log is append-only: every step leaves the previous log as a prefix
   of the new one, and the event identifiers are strictly increasing along the log. *)
C12_AppendOnly ==
    [][/\ IsPrefix(hitl_manager.hitl_traces, hitl_manager'.hitl_traces)
       /\ \A i, j \in DOMAIN hitl_manager'.hitl_traces :
            i < j => hitl_manager'.hitl_traces[i].trace_id
                     < hitl_manager'.hitl_traces[j].trace_id]_vars

\* a suspended snapshot was resumed and then discarded, and its events are all there
C12_Witness ==
    /\ hist.call.op = "cleanup"
    /\ hitl_manager.freeze_counter >= 1
    /\ hitl_manager.frozen_states = << >>
    /\ DOMAIN hist.suspended # {}
    /\ Len(hitl_manager.hitl_traces) >= 4

\* the policy has answered about the cognition output of the state
Asked == pc = "policy" /\ ret.kind = "verdict"

(* C13: evaluate returns level approve for every cognition output whose tool is in
   the high-risk set, whatever the confidence, the loop counter, the evidence
   references, the final-action flag and the registered custom handlers. *)
C13_HighRiskApprove ==
    Asked => (cogs[cognition_output].proposed_action.tool_name
                  \in hitl_manager.policy.high_risk_tools
              => ret.verdict.level = "approve")

\* a high-risk tool was asked about with every later rule matching as well
C13_Witness ==
    /\ Asked
    /\ LET cog == cogs[cognition_output]
           policy == hitl_manager.policy
           tool_name == cog.proposed_action.tool_name
       IN /\ tool_name \in policy.high_risk_tools
          /\ tool_name \in policy.always_confirm_tools
          /\ policy.confirm_on_final_action /\ cog.is_final_action
          /\ loop_counter >= policy.confirm_after_n_loops
          /\ cog.confidence < policy.confirm_on_confidence_below
          /\ policy.confirm_on_missing_evidence /\ cog.evidence_refs = << >>
          /\ tool_name \in DOMAIN policy.custom_handlers
          /\ policy.custom_handlers[tool_name].level # "approve"

(* C14: evaluate returns the result of the first matching rule in the order
   high-risk tool, always-confirm tool, final action, loop count, low confidence,
   missing evidence, custom handler, none; a custom handler is consulted only when
   none of the first six rules matches. *)
C14_FirstMatchWins ==
    Asked =>
    LET cog == cogs[cognition_output]
        policy == hitl_manager.policy
        tool_name == cog.proposed_action.tool_name
        r1 == tool_name \in policy.high_risk_tools
        r2 == tool_name \in policy.always_confirm_tools
        r3 == policy.confirm_on_final_action /\ cog.is_final_action
        r4 == loop_counter >= policy.confirm_after_n_loops
        r5 == cog.confidence < policy.confirm_on_confidence_below
        r6 == policy.confirm_on_missing_evidence /\ cog.evidence_refs = << >>
        r7 == tool_name \in DOMAIN policy.custom_handlers
        v == ret.verdict
    IN /\ r1 => v = Verdict("approve", "High-risk tool")
       /\ (~r1 /\ r2) => v = Verdict("confirm", "Confirmation required")
       /\ (~r1 /\ ~r2 /\ r3) => v = Verdict("confirm", "Final action requires confirmation")
       /\ (~r1 /\ ~r2 /\ ~r3 /\ r4) => v = Verdict("notify", "Extended loop count")
       /\ (~r1 /\ ~r2 /\ ~r3 /\ ~r4 /\ r5) => v = Verdict("confirm", "Low confidence")
       /\ (~r1 /\ ~r2 /\ ~r3 /\ ~r4 /\ ~r5 /\ r6)
              => v = Verdict("notify", "Missing evidence citations")
       /\ (~r1 /\ ~r2 /\ ~r3 /\ ~r4 /\ ~r5 /\ ~r6 /\ r7) => v = policy.custom_handlers[tool_name]
       /\ (~r1 /\ ~r2 /\ ~r3 /\ ~r4 /\ ~r5 /\ ~r6 /\ ~r7) => v = Verdict("none", "")

\* the missing-evidence rule answered for a tool that has a custom handler
C14_Witness ==
    /\ Asked
    /\ LET cog == cogs[cognition_output]
           tool_name == cog.proposed_action.tool_name
       IN /\ tool_name \in DOMAIN hitl_manager.policy.custom_handlers
          /\ hitl_manager.policy.custom_handlers[tool_name].level = "confirm"
          /\ cog.evidence_refs = << >>
          /\ ret.verdict = Verdict("notify", "Missing evidence citations")

\* the step is a call of the policy
PolicyStep == pc = "policy" /\ calls' = calls + 1

(* C15: evaluate and check_intervention change nothing: the cognition output, the
   context, the policy configuration, the snapshots, the audit log and the counters
   are as before the call; and a call made again with the same inputs and
   configuration returns the same (level, reason). *)
C15_EvaluatePure ==
    [][PolicyStep
       => /\ cogs' = cogs
          /\ ctxs' = ctxs
          /\ hitl_manager' = hitl_manager
          /\ memory' = memory
          /\ loop_counter' = loop_counter
          /\ (ret.kind = "verdict" => ret'.verdict = ret.verdict)]_vars

\* the policy was asked through both entry points and a custom handler answered
C15_Witness ==
    /\ Asked
    /\ calls >= 2
    /\ hist.call.op = "check_intervention"
    /\ LET tool_name == cogs[cognition_output].proposed_action.tool_name
       IN /\ tool_name \in DOMAIN hitl_manager.policy.custom_handlers
          /\ ret.verdict = Verdict("block", "Custom rule")

\* the step records a reject decision that carries feedback text, and the loop goes
\* on to call reasoning
RejectedWith(F) ==
    /\ \E i \in Appended : /\ hitl_manager'.hitl_traces[i].event_type = "rejected"
                           /\ hitl_manager'.hitl_traces[i].human_feedback = F
    /\ F # None
    /\ pc' = "loop"
    /\ loop_counter' < MaxLoops

(* C16: after a reject decision with feedback text F, delivered by the handler
   inside run or by resume_from_freeze, the context given to the next reasoning call
   has human_rejected = true and rejection_reason = F. *)
C16_RejectionReasonLiteral ==
    [][\A F \in Feedbacks :
         RejectedWith(F) => /\ Observed'.context.human_rejected
                            /\ Observed'.context.rejection_reason = F]_vars

\* the step is a call of reasoning
CognitionStep == hist'.cognitions = hist.cognitions + 1

(* C17: a rejection patch produced by the intervention check is merged into the
   context before the next reasoning call, in the loop of run and in the loop of
   _continue_execution alike: reasoning is never called with the patch left pending. *)
C17_PatchMergedBeforeReasoning ==
    [][(CognitionStep /\ resume_context # NoPatch)
       => /\ hist'.cog_input.context.human_rejected
          /\ hist'.cog_input.context.rejection_reason = resume_context.rejection_reason
          /\ resume_context' = NoPatch]_vars

\* the step is process_human_decision on a stored snapshot with a valid decision
DecideStep(fid) ==
    /\ CallStep("process_human_decision", fid)
    /\ fid \in DOMAIN hitl_manager.frozen_states
    /\ hist'.call.decision \in Decisions

(* C18: for a stored snapshot, process_human_decision gives: approve - execute the
   pending action; modify - execute the replacement, or the pending action when none
   is supplied; reject - retry_cognition with the snapshot's reasoning text and the
   virtual-rejection flag; and it appends an approved, modified or rejected event. *)
C18_NextAction ==
    [][\A fid \in FreezeIds :
         DecideStep(fid) =>
         LET frozen == hitl_manager.frozen_states[fid]
             pending == cogs[frozen.pending_action].proposed_action
             decision == hist'.call.decision
             last == hitl_manager'.hitl_traces[Len(hitl_manager'.hitl_traces)]
         IN /\ ret'.kind = "processed"
            /\ Appended = {Len(hitl_manager'.hitl_traces)}
            /\ last.freeze_id = fid
            /\ decision = "approve" =>
                  /\ ret'.result.next_action.action = "execute"
                  /\ ResolvedAction(ret'.result.next_action, cogs') = pending
                  /\ last.event_type = "approved"
            /\ decision = "modify" =>
                  /\ ret'.result.next_action.action = "execute"
                  /\ ResolvedAction(ret'.result.next_action, cogs')
                         = IF last.modified_action = NoneAction THEN pending
                           ELSE last.modified_action
                  /\ last.event_type = "modified"
            /\ decision = "reject" =>
                  /\ ret'.result.next_action.action = "retry_cognition"
                  /\ ret'.result.next_action.rejection_feedback
                         = cogs[frozen.cognition_output].reasoning
                  /\ ret'.result.next_action.virtual_rejection_cycle
                  /\ last.event_type = "rejected"]_vars

\* a modify decision without a replacement was processed for a stored snapshot
C18_Witness ==
    /\ hist.call.op = "process_human_decision"
    /\ hist.call.decision = "modify"
    /\ ret.kind = "processed"
    /\ hitl_manager.hitl_traces[Len(hitl_manager.hitl_traces)].modified_action = NoneAction
    /\ ret.result.next_action.by_ref

(* C19: resume_from_freeze (and the process_human_decision it calls) given an absent
   snapshot identifier or a decision outside approve, reject, modify returns an
   error and changes nothing: no audit event, no snapshot added or removed, and the
   working store, the evidence cache and the loop counter as before. *)
C19_ErrorsChangeNothing ==
    [][\A fid \in FreezeIds :
         (/\ CallStep("resume", fid)
          /\ \/ fid \notin DOMAIN hitl_manager.frozen_states
             \/ hist'.call.decision \notin Decisions)
         => /\ ret'.kind = "error"
            /\ hitl_manager' = hitl_manager
            /\ memory' = memory
            /\ loop_counter' = loop_counter
            /\ executed' = executed
            /\ cogs' = cogs
            /\ ctxs' = ctxs
            /\ pc' = "idle"]_vars

\* an invalid decision was refused for a snapshot that is stored
C19_Witness ==
    /\ hist.call.op = "resume"
    /\ hist.call.decision \notin Decisions
    /\ hist.call.freeze_id \in DOMAIN hitl_manager.frozen_states
    /\ ret.kind = "error"
    /\ hitl_manager.hitl_traces # << >>
    /\ memory.store # << >>

\* the loop was built without a decision handler (__init__ lines 244-249)
NoHandler == hitl_mode \notin {"interactive", "auto"}

\* the policy asks for a decision on the proposal the loop has validated
NeedsDecision ==
    /\ pc = "hitl"
    /\ check_intervention(hitl_manager.policy, cogs[cognition_output], ctxs[context],
                          loop_counter).level \in {"confirm", "approve", "block"}

\* the kinds of the audit events of snapshot fid, in log order
KindsOf(m, fid) ==
    LET idx == EventsOf(m, fid)
        RECURSIVE Kinds(_)
        Kinds(n) == IF n = 0 THEN << >>
                    ELSE IF n \in idx THEN Append(Kinds(n - 1), m.hitl_traces[n].event_type)
                    ELSE Kinds(n - 1)
    IN Kinds(Len(m.hitl_traces))

\* what C20 asks of the step that leaves the intervention check
Suspends ==
    LET fid == hitl_manager.freeze_counter + 1
    IN /\ pc' = "idle"
       /\ ret'.kind = "report"
       /\ executed' = executed
       /\ hist'.cognitions = hist.cognitions
       /\ fid \in DOMAIN hitl_manager'.frozen_states
       /\ cogs'[hitl_manager'.frozen_states[fid].cognition_output] = cogs[cognition_output]
       /\ KindsOf(hitl_manager', fid) = <<"state_frozen", "approval_requested">>

(* C20, as stated: when the policy asks for a decision on a validated proposal and no
   handler is attached, run returns without executing the action and without calling
   reasoning again, and leaves a stored snapshot of the proposal whose audit events
   are state_frozen and approval_requested and nothing else. *)
C20_Original ==
    [][(NeedsDecision /\ NoHandler /\ pc' # pc) => Suspends]_vars

\* the step is action() handing a named tool to the registry
Dispatch ==
    /\ pc \in {"action", "resume_action"}
    /\ pc' # pc
    /\ OrElse(modified_action, cogs[cognition_output].proposed_action).tool_name
           \notin {"", None}

\* the audit log holds an approved or modified event for a stored snapshot of the
\* proposal cog made at loop count loops
DecisionRecorded(m, cs, cog, loops) ==
    \E i \in DOMAIN m.hitl_traces :
        /\ m.hitl_traces[i].event_type \in {"approved", "modified"}
        /\ m.hitl_traces[i].freeze_id \in DOMAIN m.frozen_states
        /\ LET frozen == m.frozen_states[m.hitl_traces[i].freeze_id]
           IN /\ cs[frozen.cognition_output] = cog
              /\ frozen.loop_counter = loops

(* C21: in every configuration of the loop, an action whose proposal the policy
   rates other than none is handed to the tool registry only after an approved or
   modified event was logged for a snapshot of that proposal. *)
C21_NoExecutionWithoutDecision ==
    [][(/\ Dispatch
        /\ check_intervention(hitl_manager.policy, cogs[cognition_output], ctxs[context],
                              loop_counter).level # "none")
       => DecisionRecorded(hitl_manager, cogs, cogs[cognition_output], loop_counter)]_vars

\* no call of resume_from_freeze has been accepted so far
OnlyRuns == hist.resume_args.decision = None

(* C22: in auto mode every snapshot frozen during run gets exactly one approved event
   (and no other decision) before the run goes on; when run returns, the summary's
   hitl_approvals equals the number of snapshots frozen, hitl_rejections is 0, and no
   snapshot is left undecided. *)
C22_AutoApproves ==
    (hitl_mode = "auto" /\ OnlyRuns) =>
        /\ \A fid \in Created :
               KindsOf(hitl_manager, fid)
                   = <<"state_frozen", "approval_requested", "approved", "state_thawed">>
        /\ Created = 1..hitl_manager.freeze_counter
        /\ hist.suspended = << >>
        /\ (pc = "idle" /\ ret.kind = "report") =>
               /\ ret.summary.hitl_approvals = hitl_manager.freeze_counter
               /\ ret.summary.hitl_rejections = 0

\* a run in auto mode has returned after two escalations
C22_Witness ==
    /\ hitl_mode = "auto" /\ OnlyRuns
    /\ pc = "idle" /\ ret.kind = "report"
    /\ hist.call.op = "run"
    /\ hitl_manager.freeze_counter = 2
    /\ ret.summary.hitl_approvals = 2
    /\ Len(executed) >= 2

\* the step is resume_from_freeze getting past a decision of one of the kinds ds
ResumesWith(ds) == ResumeSucceeds /\ hist'.resume_args.decision \in ds

\* resume_from_freeze has set the rejection keys (lines 657-661) and reasoning has not
\* been called since
JustRejected == pc = "loop" /\ in_continue /\ ctxs[context].human_rejected

\* _determine_next_action for the arguments of the last resume_from_freeze
ResumeResolved ==
    LET frozen == hitl_manager.frozen_states[hist.call.freeze_id]
    IN IF hist.resume_args.decision = "modify" /\ hist.resume_args.modified_action # NoneAction
       THEN hist.resume_args.modified_action
       ELSE cogs[frozen.cognition_output].proposed_action

\* what C23 asks of every step but the one that follows a rejection
LeavesByResume ==
    /\ \A fid \in DOMAIN hist.suspended :
           (~Decided(hitl_manager, fid) /\ Decided(hitl_manager', fid)) => CallStep("resume", fid)
    /\ ResumesWith({"approve", "modify"})
           => /\ pc' = "resume_action"
              /\ executed' = executed
              /\ hist'.cognitions = hist.cognitions
    /\ (pc = "resume_action" /\ pc' # pc)
           => /\ hist'.cognitions = hist.cognitions
              /\ ctxs'[context].last_action_result.of = ResumeResolved
              /\ ResumeResolved.tool_name \in RegisteredTools
                     => executed' = Append(executed, ResumeResolved)
    /\ ResumesWith({"reject"})
           => /\ pc' = "loop"
              /\ executed' = executed
              /\ hist'.cognitions = hist.cognitions

(* C23, as stated: a suspended snapshot is decided only by resume_from_freeze; with
   approve or modify the resolved action is executed first, before any reasoning
   call; with reject nothing is executed and the next step is a reasoning call. *)
C23_Original ==
    [][/\ LeavesByResume
       /\ (JustRejected /\ pc' # pc) => (CognitionStep /\ executed' = executed)]_vars

(* C23, amended: the same, where after a reject the next step is a reasoning call
   if the restored loop counter is below max_loops, and the report otherwise. *)
C23_LeavesBySuspendedResume ==
    [][/\ LeavesByResume
       /\ (JustRejected /\ pc' # pc)
              => /\ executed' = executed
                 /\ IF loop_counter < MaxLoops THEN CognitionStep
                    ELSE pc' = "idle" /\ ret'.kind = "report"]_vars

\* a suspended snapshot was rejected through resume_from_freeze and reasoning was
\* called next, with nothing executed in between
C23_Witness ==
    /\ pc = "control"
    /\ in_continue
    /\ hist.call.op = "resume"
    /\ hist.resume_args.decision = "reject"
    /\ hist.call.freeze_id \in DOMAIN hist.suspended
    /\ ~hist.before_resume.decided
    /\ executed = hist.before_resume.executed

\* the step is action() returning after the registry has run the tool
Executes == Dispatch /\ Len(executed') = Len(executed) + 1

(* C24: after an action is executed the loop completes, with the report and without
   another reasoning call, exactly when the reasoning output that proposed it was
   marked final; otherwise the loop goes back to its head, where reasoning is called
   while the loop counter is below max_loops. *)
C24_CompletesIffFinal ==
    [][/\ Executes
          => IF cogs[cognition_output].is_final_action
             THEN pc' = "idle" /\ ret'.kind = "report" /\ hist'.cognitions = hist.cognitions
             ELSE pc' = "loop" /\ ret' = ret
       /\ (pc = "loop" /\ pc' # pc /\ loop_counter < MaxLoops) => CognitionStep]_vars

\* a run has executed an action that was not final, gone on, and completed on a final one
C24_Witness ==
    /\ pc = "idle" /\ ret.kind = "report"
    /\ hist.call.op = "run"
    /\ Len(executed) >= 2
    /\ cogs[cognition_output].is_final_action
    /\ ctxs[context].last_action_result.status = "ok"
    /\ \E i \in 1..(cognition_output - 1) :
           /\ ~cogs[i].is_final_action
           /\ cogs[i].proposed_action = executed[1]

\* the step is run or resume_from_freeze returning the report
Returns == pc # "idle" /\ pc' = "idle"

\* the step is the while test failing: the loop ends with no final action executed
Exhausts == pc = "loop" /\ pc' = "idle"

\* what a summary says about exhaustion. _generate_audit_report writes total_loops,
\* policy_violations, hitl_interventions, hitl_approvals, hitl_rejections and
\* final_state: no field names the outcome, and the loop count standing at max_loops
\* is all that exhaustion leaves in it
ExhaustedMark(summary) == summary.total_loops >= MaxLoops

(* C25: when the loop ends because the loop counter reached max_loops with no final
   action executed, the summary of the report marks the run as loop-exhausted and
   records the loop count reached, and no report of a completion (on the last allowed
   loop included) or of a suspension carries that mark. *)
C25_ExhaustionMarked ==
    [][Returns => /\ ret'.kind = "report"
                  /\ ret'.summary.total_loops = loop_counter
                  /\ Exhausts <=> ExhaustedMark(ret'.summary)]_vars

\* how far a stage is from the head of the loop, in stages
StageRank(stage) ==
    CASE stage = "loop" -> 0
      [] stage = "control" -> 3
      [] stage = "hitl" -> 2
      [] stage \in {"action", "resume_action"} -> 1

\* the stages a call can still go through before the while test fails
Variant == 4 * (MaxLoops - loop_counter) + StageRank(pc)

(* C26: every call of run and of resume_from_freeze terminates: each reasoning call,
   whatever becomes of its proposal, raises the loop counter by exactly one; the
   loop counter never exceeds max_loops; reasoning is not called once the counter
   equals max_loops; and every step of a call that does not return lowers a
   variant that is never negative. *)
C26_Terminates ==
    [][/\ CognitionStep => (loop_counter' = loop_counter + 1 /\ loop_counter < MaxLoops)
       /\ loop_counter' = loop_counter \/ CognitionStep \/ ResumeSucceeds
       /\ loop_counter' <= MaxLoops
       /\ pc # "idle" => Variant >= 0
       /\ (pc # "idle" /\ pc' # "idle") => Variant' < Variant]_vars

\* a call has ended at the ceiling after reasoning calls of which one failed
\* validation and one was rejected by the human
C26_Witness ==
    /\ pc = "idle" /\ ret.kind = "report"
    /\ loop_counter = MaxLoops
    /\ hist.cognitions = MaxLoops
    /\ ret.summary.policy_violations >= 1
    /\ ret.summary.hitl_rejections >= 1
    /\ ~cogs[cognition_output].is_final_action

\* the step is action() catching what the registry raised
ActionFails ==
    /\ Dispatch
    /\ OrElse(modified_action, cogs[cognition_output].proposed_action).tool_name
           \notin RegisteredTools

(* C27: a failing tool call never unwinds the loop: the call of run or
   resume_from_freeze goes on to its next stage or returns the report, nothing is
   recorded as executed, and the failed-action result is the last_action_result of
   the context from then on. *)
C27_FailureIsAResult ==
    [][ActionFails
       => /\ ctxs'[context].last_action_result.status = "error"
          /\ ctxs'[context].last_action_result.of
                 = OrElse(modified_action, cogs[cognition_output].proposed_action)
          /\ executed' = executed
          /\ memory' = memory
          /\ \/ pc' = "loop" /\ ret' = ret
             \/ pc' = "idle" /\ ret'.kind = "report"]_vars

\* reasoning was called with the failed-action result of an unregistered tool in its
\* context
C27_Witness ==
    /\ pc = "control"
    /\ hist.cog_input.context.last_action_result.status = "error"
    /\ hist.cog_input.context.last_action_result.of.tool_name = "book_flight"

(* C28: after an action attempt that failed because the tool is not registered the
   loop goes back to its head, to call reasoning again while the loop counter is
   below max_loops; it does not end as completed on the failed attempt, whether
   or not the reasoning output was marked final. *)
C28_FailedAttemptGoesOn ==
    [][ActionFails => (pc' = "loop" /\ ret' = ret)]_vars

\* the step is control() returning to the loop
ControlStep == pc = "control" /\ pc' # pc

\* the proposal names a tool whose evidence key is in the evidence cache
Redundant ==
    /\ cogs[cognition_output].proposed_action.tool_name \notin {"", None}
    /\ cogs[cognition_output].proposed_action \in DOMAIN memory.evidence_cache

\* the proposal breaks a rule of the MetaPrompt or repeats a tool call
ValidationFails ==
    \/ cogs[cognition_output].evidence_refs = << >>
    \/ Redundant

\* the step appends one Control trace with a false validation result and nothing else
OneFailedControlTrace ==
    /\ Len(memory'.history) = Len(memory.history) + 1
    /\ IsPrefix(memory.history, memory'.history)
    /\ memory'.history[Len(memory'.history)].module = "Control"
    /\ memory'.history[Len(memory'.history)].validation_result = "False"
    /\ memory'.store = memory.store
    /\ memory'.evidence_cache = memory.evidence_cache

(* C29: on a validation failure the loop goes back to reasoning with the failure
   message in the context the next reasoning call is given; no snapshot is created,
   no HITL audit event is appended, nothing is executed, and exactly one Control
   trace with a false validation result is appended. *)
C29_ValidationFailure ==
    [][/\ (ControlStep /\ ValidationFails)
          => /\ pc' = "loop"
             /\ ctxs'[context].last_rejection
                    \in {"VIOLATIONS: Missing evidence citations",
                         "REJECTED: Redundant tool call (evidence already in Memory)"}
             /\ Observed'.context.last_rejection = ctxs'[context].last_rejection
             /\ hitl_manager' = hitl_manager
             /\ executed' = executed
             /\ OneFailedControlTrace
       /\ (CognitionStep /\ ~ResumeSucceeds)
          => hist'.cog_input.context.last_rejection = ctxs[context].last_rejection]_vars

\* reasoning was called with the message of a failed validation in its context, and
\* nothing was frozen, logged or executed
C29_Witness ==
    /\ pc = "control"
    /\ hist.cog_input.context.last_rejection = "VIOLATIONS: Missing evidence citations"
    /\ hitl_manager.freeze_counter = 0
    /\ hitl_manager.hitl_traces = << >>
    /\ executed = << >>
    /\ hist.cognitions = 2

(* C30: when the evidence key of the proposal (tool name and parameters) is in the
   evidence cache, control rejects it with the redundant-call message whatever the
   MetaPrompt rules say of it, and the proposal is neither frozen for a decision nor
   executed. *)
C30_RedundantOverrides ==
    [][(ControlStep /\ Redundant)
       => /\ pc' = "loop"
          /\ ctxs'[context].last_rejection
                 = "REJECTED: Redundant tool call (evidence already in Memory)"
          /\ hitl_manager' = hitl_manager
          /\ executed' = executed
          /\ OneFailedControlTrace]_vars

\* a proposal that passes the MetaPrompt rules was rejected as a redundant call
C30_Witness ==
    /\ pc = "loop"
    /\ cognition_output \in DOMAIN cogs
    /\ memory.history # << >>
    /\ validate_issues(cogs[cognition_output]) = << >>
    /\ cogs[cognition_output].proposed_action \in DOMAIN memory.evidence_cache
    /\ ctxs[context].last_rejection
           = "REJECTED: Redundant tool call (evidence already in Memory)"
    /\ memory.history[Len(memory.history)].module = "Control"
    /\ memory.history[Len(memory.history)].validation_result = "False"

(* C31: for a reasoning output marked final, control sets control_validated before the
   MetaPrompt rules are evaluated: the rule "Final action without Control validation"
   is never reported, and a final proposal with evidence references that repeats no
   tool call passes validation. *)
C31_FinalMarkedBeforeRules ==
    [][(ControlStep /\ cogs[cognition_output].is_final_action)
       => /\ cogs'[cognition_output].control_validated
          /\ pc' = "loop"
                 => ctxs'[context].last_rejection
                        \in {"VIOLATIONS: Missing evidence citations",
                             "REJECTED: Redundant tool call (evidence already in Memory)"}
          /\ (cogs[cognition_output].evidence_refs # << >> /\ ~Redundant)
                 => /\ pc' = "hitl"
                    /\ memory'.history[Len(memory'.history)].validation_result = "True"]_vars

\* a final proposal, not validated when reasoning returned it, has passed control
C31_Witness ==
    /\ pc = "hitl"
    /\ cogs[cognition_output].is_final_action
    /\ cogs[cognition_output].control_validated
    /\ cogs[cognition_output].evidence_refs # << >>
    /\ memory.history[Len(memory.history)].module = "Control"
    /\ memory.history[Len(memory.history)].validation_result = "True"

(***************************************************************************)
(* Two threads on one HITLManager.  The loop thread calls freeze_state and  *)
(* request_approval; a decision-handling thread calls                       *)
(* process_human_decision and thaw_state on stored snapshots.  The class    *)
(* holds no lock, so the threads interleave between the reads and writes of *)
(* a method: "self.x += 1" reads x and then writes it, and the f-string of  *)
(* the identifier reads x once more.  list.append and the dict store are    *)
(* single steps.  pc maps a thread to where it stands and to its locals.    *)
(***************************************************************************)
Threads == {"loop", "decider"}

ThreadIdle ==
    [at |-> "idle", reg |-> 0, fid |-> 0, event |-> None, decision |-> None,
     actor |-> None, next |-> "idle", ops |-> 0]

InitThreads ==
    /\ hitl_manager = NewManager
    /\ cogs = << >>
    /\ ctxs = <<NewContext("task1")>>
    /\ memory = NewMemory
    /\ loop_counter = 0
    /\ hitl_mode = "deferred"
    /\ resume_context = NoPatch
    /\ is_resumed = FALSE
    /\ pc = [t \in Threads |-> ThreadIdle]
    /\ context = 1
    /\ cognition_output = 0
    /\ modified_action = NoneAction
    /\ in_continue = FALSE
    /\ ret = NoReturn
    /\ executed = << >>
    /\ calls = 0
    /\ hist = HistInit

ThreadFrame == <<loop_counter, hitl_mode, resume_context, is_resumed, context,
                 cognition_output, modified_action, in_continue, executed, ret, memory, hist>>

\* thread t enters _log_trace for an event; calls counts the events asked for
EnterLogTrace(t, event, fid, decision, actor, next) ==
    /\ pc' = [pc EXCEPT ![t] = [@ EXCEPT !.at = "tid_read", !.event = event, !.fid = fid,
                                         !.decision = decision, !.actor = actor,
                                         !.next = next]]
    /\ calls' = calls + 1

\* the loop thread enters freeze_state
BeginFreeze ==
    /\ pc["loop"].at = "idle" /\ pc["loop"].next = "idle"
    /\ pc["loop"].ops < MaxFreezes
    /\ pc' = [pc EXCEPT !["loop"] = [@ EXCEPT !.at = "fid_read", !.ops = @ + 1]]
    /\ UNCHANGED <<hitl_manager, cogs, ctxs, calls, ThreadFrame>>

\* _generate_freeze_id, "self.freeze_counter += 1": the read
FreezeIdRead ==
    /\ pc["loop"].at = "fid_read"
    /\ pc' = [pc EXCEPT !["loop"] = [@ EXCEPT !.at = "fid_write",
                                              !.reg = hitl_manager.freeze_counter]]
    /\ UNCHANGED <<hitl_manager, cogs, ctxs, calls, ThreadFrame>>

\* _generate_freeze_id, "self.freeze_counter += 1": the write
FreezeIdWrite ==
    /\ pc["loop"].at = "fid_write"
    /\ hitl_manager' = [hitl_manager EXCEPT !.freeze_counter = pc["loop"].reg + 1]
    /\ pc' = [pc EXCEPT !["loop"].at = "fid_format"]
    /\ UNCHANGED <<cogs, ctxs, calls, ThreadFrame>>

\* _generate_freeze_id, the f-string: the counter is read again
FreezeIdFormat ==
    /\ pc["loop"].at = "fid_format"
    /\ pc' = [pc EXCEPT !["loop"] = [@ EXCEPT !.at = "store",
                                              !.fid = hitl_manager.freeze_counter]]
    /\ UNCHANGED <<hitl_manager, cogs, ctxs, calls, ThreadFrame>>

\* freeze_state lines 229-243: the snapshot is built and stored under its identifier,
\* and _log_trace is entered for state_frozen
FreezeStore(out) ==
    /\ pc["loop"].at = "store"
    /\ LET fid == pc["loop"].fid
           fz == freeze_state([hitl_manager EXCEPT !.freeze_counter = fid - 1],
                              Append(cogs, out), ctxs, memory, 3, Len(cogs) + 1,
                              get_snapshot(memory), get_evidence_snapshot(memory), context,
                              MetaPromptState, "approve", "High-risk tool")
       IN /\ hitl_manager' = [hitl_manager EXCEPT !.frozen_states = (fid :> fz.frozen) @@ @]
          /\ cogs' = fz.cogs
          /\ ctxs' = fz.ctxs
          /\ EnterLogTrace("loop", "state_frozen", fid, None, "system", "request")
    /\ UNCHANGED ThreadFrame

\* the loop thread goes on to request_approval with the snapshot freeze_state returned
BeginRequest ==
    /\ pc["loop"].at = "idle" /\ pc["loop"].next = "request"
    /\ EnterLogTrace("loop", "approval_requested", pc["loop"].fid, None, "system", "idle")
    /\ UNCHANGED <<hitl_manager, cogs, ctxs, ThreadFrame>>

\* the decision thread enters process_human_decision for a stored snapshot
BeginDecision(fid, decision) ==
    /\ pc["decider"].at = "idle"
    /\ pc["decider"].ops < MaxThreadOps
    /\ DecisionAllowed(hitl_manager, fid)
    /\ EnterLogTrace("decider", DecisionEvent(decision), fid, decision, "human", "idle")
    /\ UNCHANGED <<hitl_manager, cogs, ctxs, ThreadFrame>>

\* the decision thread enters thaw_state for a stored snapshot
BeginThaw(fid) ==
    /\ pc["decider"].at = "idle"
    /\ pc["decider"].ops < MaxThreadOps
    /\ fid \in DOMAIN hitl_manager.frozen_states
    /\ EnterLogTrace("decider", "state_thawed", fid, None, "system", "idle")
    /\ UNCHANGED <<hitl_manager, cogs, ctxs, ThreadFrame>>

\* _generate_trace_id, "self.trace_counter += 1": the read
TraceIdRead(t) ==
    /\ pc[t].at = "tid_read"
    /\ pc' = [pc EXCEPT ![t] = [@ EXCEPT !.at = "tid_write",
                                         !.reg = hitl_manager.trace_counter]]
    /\ UNCHANGED <<hitl_manager, cogs, ctxs, calls, ThreadFrame>>

\* _generate_trace_id, "self.trace_counter += 1": the write
TraceIdWrite(t) ==
    /\ pc[t].at = "tid_write"
    /\ hitl_manager' = [hitl_manager EXCEPT !.trace_counter = pc[t].reg + 1]
    /\ pc' = [pc EXCEPT ![t].at = "tid_format"]
    /\ UNCHANGED <<cogs, ctxs, calls, ThreadFrame>>

\* _generate_trace_id, the f-string: the counter is read again
TraceIdFormat(t) ==
    /\ pc[t].at = "tid_format"
    /\ pc' = [pc EXCEPT ![t] = [@ EXCEPT !.at = "append",
                                         !.reg = hitl_manager.trace_counter]]
    /\ UNCHANGED <<hitl_manager, cogs, ctxs, calls, ThreadFrame>>

\* _log_trace line 452: the event is appended, and the method of the thread returns
TraceAppend(t) ==
    /\ pc[t].at = "append"
    /\ hitl_manager' =
           [hitl_manager EXCEPT !.hitl_traces =
               Append(@, [trace_id |-> pc[t].reg,
                          event_type |-> pc[t].event,
                          freeze_id |-> pc[t].fid,
                          pending_action |->
                              hitl_manager.frozen_states[pc[t].fid].pending_action,
                          human_decision |-> pc[t].decision,
                          human_feedback |-> None,
                          modified_action |-> NoneAction,
                          decision_rationale |-> None,
                          actor |-> pc[t].actor])]
    /\ pc' = [pc EXCEPT ![t] = [@ EXCEPT !.at = "idle",
                                         !.ops = IF t = "decider" THEN @ + 1 ELSE @]]
    /\ UNCHANGED <<cogs, ctxs, calls, ThreadFrame>>

NextThreads ==
    \/ BeginFreeze
    \/ FreezeIdRead
    \/ FreezeIdWrite
    \/ FreezeIdFormat
    \/ \E out \in ClientOutputs : FreezeStore(out)
    \/ BeginRequest
    \/ \E fid \in FreezeIds, decision \in Decisions : BeginDecision(fid, decision)
    \/ \E fid \in FreezeIds : BeginThaw(fid)
    \/ \E t \in Threads : TraceIdRead(t)
    \/ \E t \in Threads : TraceIdWrite(t)
    \/ \E t \in Threads : TraceIdFormat(t)
    \/ \E t \in Threads : TraceAppend(t)

SpecThreads == InitThreads /\ [][NextThreads]_vars

\* no thread is inside a method of the manager
Quiescent == \A t \in Threads : pc[t].at = "idle" /\ pc[t].next = "idle"

(* C32: whenever a decision-handling thread calls process_human_decision and
   thaw_state while the loop thread calls freeze_state and request_approval on the
   same manager, once the calls have returned no audit event is lost, the audit
   event identifiers are all distinct, the snapshot identifiers are all distinct,
   and trace_counter and freeze_counter equal the numbers of events and snapshots
   created. *)
C32_ConcurrentAccessSafe ==
    Quiescent =>
        /\ Len(hitl_manager.hitl_traces) = calls
        /\ \A i, j \in DOMAIN hitl_manager.hitl_traces :
               i # j => hitl_manager.hitl_traces[i].trace_id # hitl_manager.hitl_traces[j].trace_id
        /\ hitl_manager.trace_counter = calls
        /\ Cardinality(DOMAIN hitl_manager.frozen_states) = pc["loop"].ops
        /\ hitl_manager.freeze_counter = pc["loop"].ops

\* the step appends a rejected event to the audit log
RejectedNow ==
    \E i \in DOMAIN hitl_manager'.hitl_traces :
        /\ i > Len(hitl_manager.hitl_traces)
        /\ hitl_manager'.hitl_traces[i].event_type = "rejected"

\* the audit log m holds a rejected event with no approval_requested event after it
RejectionUnanswered(m) ==
    \E i \in DOMAIN m.hitl_traces :
        /\ m.hitl_traces[i].event_type = "rejected"
        /\ \A j \in DOMAIN m.hitl_traces :
               j > i => m.hitl_traces[j].event_type # "approval_requested"

\* the step is the call returning after the action of a final proposal
Completes == pc \in {"action", "resume_action"} /\ pc' = "idle"

(* C33, as stated: after a rejected event the loop produces a fresh approval_requested
   event or a completion; the run never ends with neither.  Read on the first run of
   an instance, whose audit log holds the events of that run only. *)
C33_Original ==
    [][(Returns /\ calls = 1 /\ RejectionUnanswered(hitl_manager')) => Completes]_vars

(* C33, amended: a rejection puts the loop back at its head with nothing executed,
   and a call that returns after a rejected event with no approval_requested event
   after it has either completed or found the loop counter at max_loops. *)
C33_RejectionNotDropped ==
    [][/\ RejectedNow => (pc' = "loop" /\ executed' = executed)
       /\ (Returns /\ RejectionUnanswered(hitl_manager'))
              => (Completes \/ (Exhausts /\ loop_counter >= MaxLoops))]_vars

\* a run has ended after a rejection that was followed by reasoning and by an
\* approval_requested event for a new snapshot
C33_Witness ==
    /\ pc = "idle" /\ ret.kind = "report"
    /\ calls = 1
    /\ \E i, j \in DOMAIN hitl_manager.hitl_traces :
           /\ i < j
           /\ hitl_manager.hitl_traces[i].event_type = "rejected"
           /\ hitl_manager.hitl_traces[j].event_type = "approval_requested"
           /\ hitl_manager.hitl_traces[j].freeze_id # hitl_manager.hitl_traces[i].freeze_id

(* C34: thaw_state never removes or replaces a stored snapshot: a call on a stored
   identifier appends exactly one state_thawed event and returns the snapshot, a
   call on an absent identifier returns None and appends no event, and only
   cleanup_frozen_state takes a snapshot out of the store. *)
C34_ThawKeepsSnapshot ==
    [][\A fid \in FreezeIds :
          /\ CallStep("thaw_state", fid)
                => /\ hitl_manager'.frozen_states = hitl_manager.frozen_states
                   /\ IF fid \in DOMAIN hitl_manager.frozen_states
                      THEN /\ Len(hitl_manager'.hitl_traces) = Len(hitl_manager.hitl_traces) + 1
                           /\ IsPrefix(hitl_manager.hitl_traces, hitl_manager'.hitl_traces)
                           /\ LET e == hitl_manager'.hitl_traces[Len(hitl_manager'.hitl_traces)]
                              IN e.event_type = "state_thawed" /\ e.freeze_id = fid
                           /\ hist'.thawed = fid
                      ELSE /\ hitl_manager' = hitl_manager
                           /\ hist'.thawed = 0
          /\ (fid \in DOMAIN hitl_manager.frozen_states
              /\ fid \notin DOMAIN hitl_manager'.frozen_states)
                => CallStep("cleanup_frozen_state", fid)]_vars

\* a snapshot was thawed twice and is still stored
C34_Witness ==
    \E fid \in DOMAIN hitl_manager.frozen_states :
        /\ Cardinality(KindOf(hitl_manager, fid, "state_thawed")) = 2
        /\ hist.thawed = fid

(* C35: every freeze_state call returns an identifier different from every identifier
   the manager returned before, those of snapshots since removed by
   cleanup_frozen_state included, and adds exactly one snapshot to the store. *)
C35_FreshFreezeId ==
    [][\A fid \in 1..(MaxFreezes + 1) :
          CallStep("freeze_state", fid)
             => /\ fid \notin DOMAIN hist.held
                /\ fid \notin DOMAIN hitl_manager.frozen_states
                /\ DOMAIN hitl_manager'.frozen_states
                       = DOMAIN hitl_manager.frozen_states \cup {fid}
                /\ \A f \in DOMAIN hitl_manager.frozen_states :
                       hitl_manager'.frozen_states[f] = hitl_manager.frozen_states[f]
                /\ hitl_manager'.frozen_states[fid].freeze_id = fid]_vars

\* freeze_state was called after the only snapshot had been removed from the store
C35_Witness ==
    /\ hist.call.op = "freeze_state"
    /\ DOMAIN hist.held = {1, 2}
    /\ DOMAIN hitl_manager.frozen_states = {2}

\* the indices of the reasoning-stage traces of the loop trace log
CognitionTraces(mem) == {i \in DOMAIN mem.history : mem.history[i].module = "Cognition"}

(* C36: each loop trace keeps the input it was recorded with: the input of a
   reasoning-stage trace is the context as the reasoning call was given it, and no
   later update of the live context (the pops of the rejection keys, last_rejection,
   last_action_result) changes the input of a trace already recorded. *)
C36_TraceKeepsInput ==
    [][/\ \A i \in CognitionTraces(memory) \cap CognitionTraces(memory') :
              ctxs'[memory'.history[i].input_state] = ctxs[memory.history[i].input_state]
       /\ (CognitionStep /\ ~ResumeSucceeds)
              => LET new == memory'.history[Len(memory'.history)]
                 IN new.module = "Cognition"
                    /\ ctxs'[new.input_state] = hist'.cog_input.context]_vars

(* C37: in the loop with the default MetaPrompt rules, the intervention check is reached
   only by proposals that passed validation, which have evidence references; so the
   missing-evidence rule of the policy never gives the level of a proposal the loop
   checks. *)
C37_MissingEvidenceRuleUnreached ==
    pc = "hitl" =>
        /\ cogs[cognition_output].evidence_refs # << >>
        /\ validate_issues(cogs[cognition_output]) = << >>
        /\ check_intervention(hitl_manager.policy, cogs[cognition_output], ctxs[context],
                              loop_counter).reason # "Missing evidence citations"

\* a proposal the missing-evidence rule would have rated was stopped by control
C37_Witness ==
    /\ pc = "loop"
    /\ cognition_output \in DOMAIN cogs
    /\ hitl_mode # "disabled"
    /\ check_intervention(hitl_manager.policy, cogs[cognition_output], ctxs[context],
                          loop_counter).reason = "Missing evidence citations"
    /\ ctxs[context].last_rejection = "VIOLATIONS: Missing evidence citations"
    /\ hitl_manager.freeze_counter = 0
    /\ memory.history[Len(memory.history)].module = "Control"

\* the policy rates the proposal the loop has validated as notify
NotifyLevel ==
    /\ pc = "hitl"
    /\ check_intervention(hitl_manager.policy, cogs[cognition_output], ctxs[context],
                          loop_counter).level = "notify"

\* what C38 asks of the step that leaves the intervention check
AutoApproved ==
    LET fid == hitl_manager.freeze_counter + 1
        m == hitl_manager'
    IN /\ pc' = "action"
       /\ modified_action' = NoneAction
       /\ ret' = ret
       /\ fid \in DOMAIN m.frozen_states
       /\ cogs'[m.frozen_states[fid].cognition_output] = cogs[cognition_output]
       /\ KindsOf(m, fid) = <<"state_frozen", "approval_requested", "approved", "state_thawed">>
       /\ \A i \in KindOf(m, fid, "approved") :
              /\ m.hitl_traces[i].actor = "human"
              /\ m.hitl_traces[i].decision_rationale = "Auto-approved (notify level)"

(* C38: when no decision handler is attached and the policy level is notify, the loop
   does not suspend: a snapshot is frozen, approval_requested and then approved
   (actor human, rationale auto-approved) are logged, the snapshot is thawed, and the
   loop goes on to execute the action in the same run. *)
C38_NotifyAutoApproved ==
    [][(NotifyLevel /\ NoHandler /\ pc' # pc) => AutoApproved]_vars

\* the loop of a run call is under way (not the loop continued by resume_from_freeze)
InRun == pc \in {"loop", "control", "hitl", "action"} /\ ~in_continue

\* no audit event records a modify decision
NoModify == \A i \in DOMAIN hitl_manager.hitl_traces :
                hitl_manager.hitl_traces[i].event_type # "modified"

(* C39: within one run call in which no modify decision is given, no tool is executed
   successfully twice with the same name and parameters: a successful execution
   stores its evidence key, the key stays in the cache for the rest of the run, and
   control rejects a later proposal with that key, so an action is executed only
   when its key is not in the cache. *)
C39_NoRepeatedExecution ==
    [][/\ (InRun /\ Executes /\ modified_action = NoneAction)
              => /\ cogs[cognition_output].proposed_action \notin DOMAIN memory.evidence_cache
                 /\ cogs[cognition_output].proposed_action \in DOMAIN memory'.evidence_cache
                 /\ executed' = Append(executed, cogs[cognition_output].proposed_action)
       /\ (InRun /\ pc' # "idle")
              => DOMAIN memory.evidence_cache \subseteq DOMAIN memory'.evidence_cache
       /\ (calls' = 1 /\ NoModify')
              => \A i, j \in DOMAIN executed' : i # j => executed'[i] # executed'[j]]_vars

\* a first run has executed two actions and had a repeated proposal rejected by control
C39_Witness ==
    /\ calls = 1 /\ NoModify
    /\ pc = "loop"
    /\ Len(executed) = 2
    /\ cogs[cognition_output].proposed_action \in {executed[i] : i \in DOMAIN executed}
    /\ ctxs[context].last_rejection
           = "REJECTED: Redundant tool call (evidence already in Memory)"
    /\ memory.history[Len(memory.history)].validation_result = "False"

\* the tool the proposal names is not one the registry holds
ProposesUnregistered ==
    cogs[cognition_output].proposed_action.tool_name \notin RegisteredTools \cup {"", None}

(* C40: a failed tool call stores no evidence-cache entry and appends no Action trace,
   so a later proposal of the same tool and parameters is not rejected by control as
   a redundant call and can be attempted again. *)
C40_FailureLeavesNoEvidence ==
    [][/\ ActionFails
          => /\ memory'.evidence_cache = memory.evidence_cache
             /\ memory'.history = memory.history
             /\ OrElse(modified_action, cogs[cognition_output].proposed_action)
                    \notin DOMAIN memory'.evidence_cache
       /\ (ControlStep /\ ProposesUnregistered)
          => /\ ~Redundant
             /\ cogs[cognition_output].evidence_refs # << >> => pc' = "hitl"]_vars

\* a proposal of an unregistered tool failed, was made again, passed control and
\* failed again
C40_Witness ==
    /\ pc = "loop"
    /\ cognition_output \in DOMAIN cogs
    /\ ProposesUnregistered
    /\ ctxs[context].last_action_result.status = "error"
    /\ hist.cog_input.context.last_action_result.status = "error"
    /\ hist.cog_input.context.last_action_result.of = cogs[cognition_output].proposed_action
    /\ memory.history[Len(memory.history)].module # "Action"

====
